---- MODULE Spec2Model ----
(***************************************************************************)
(* Model of the dev-container orchestrator (src/index.js): the HTTP        *)
(* handlers that start and finish a container session and that write,      *)
(* read and enumerate files of the container through docker exec sessions  *)
(* and host-side temporary files.                                          *)
(*                                                                         *)
(* Strings are sequences of one-character tokens, except that a name which *)
(* no operation of the program ever looks into ("app", "tmp", "x", ...) is *)
(* one token.  "/" is always a token of its own, so String.startsWith,     *)
(* path.dirname, path.basename and the kernel's path resolution can be     *)
(* computed on the token sequence exactly as on the characters.            *)
(***************************************************************************)
EXTENDS Integers, Sequences, FiniteSets, TLC

\* ------------------------------------------------------------------------
\* Bounds of the model
\* ------------------------------------------------------------------------

\* Date.now() is read from a clock that ticks at most MaxClock times.
MaxClock == 1

\* At most MaxEdits edit requests reach the container in one behaviour of
\* the specification that varies the content, at most MaxPathEdits in one
\* of the specification that varies the path.
MaxEdits == 2

MaxPathEdits == 1

\* At most MaxListEdits edit requests reach the container in one behaviour
\* of the specification of every endpoint.
MaxListEdits == 2

\* The contents of the specification of the quoting are at most MaxQuoteLen
\* characters long, and at most MaxQuoteEdits edit requests reach the
\* container in one of its behaviours.
MaxQuoteLen == 3

MaxQuoteEdits == 1

\* At most MaxFaults host commands (mkdir, rm) fail for a reason of the
\* host's (a full or read-only /tmp, a busy directory) in one behaviour.
MaxFaults == 1

\* ------------------------------------------------------------------------
\* Strings
\* ------------------------------------------------------------------------

SL == "/"
QT == "'"
BS == "\\"
NL == "\n"

\* Number.prototype.toString of a clock value (template literal `-${Date.now()}`).
DecimalDigits == <<"0", "1", "2", "3", "4", "5", "6", "7", "8", "9">>

NumStr(n) == <<DecimalDigits[n + 1]>>

\* String.prototype.startsWith
StartsWith(s, p) == Len(s) >= Len(p) /\ SubSeq(s, 1, Len(p)) = p

\* String.prototype.slice(1)
Slice1(s) == SubSeq(s, 2, Len(s))

\* The workspace root of the container, "/app", and the prefix "/app/".
AppRoot == <<SL, "app">>

AppPrefix == <<SL, "app", SL>>

\* Index of the last "/" of s at or before position i, 0 when there is none.
RECURSIVE LastSlashUpTo(_, _)
LastSlashUpTo(s, i) ==
    IF i = 0 THEN 0
    ELSE IF s[i] = SL THEN i
    ELSE LastSlashUpTo(s, i - 1)

\* Length of s without its trailing "/" characters.
RECURSIVE TrimEnd(_, _)
TrimEnd(s, i) ==
    IF i = 0 THEN 0
    ELSE IF s[i] = SL THEN TrimEnd(s, i - 1)
    ELSE i

\* node's path.posix.dirname: everything before the "/" that precedes the
\* last component; "/" or "." when that slash is the first character or
\* is missing.
dirname(s) ==
    LET e == TrimEnd(s, Len(s))
        k == LastSlashUpTo(s, e)
    IN  IF Len(s) = 0 THEN <<".">>
        ELSE IF k <= 1 THEN (IF s[1] = SL THEN <<SL>> ELSE <<".">>)
        ELSE IF k = 2 /\ s[1] = SL THEN <<SL, SL>>
        ELSE SubSeq(s, 1, k - 1)

\* node's path.posix.basename
basename(s) ==
    LET e == TrimEnd(s, Len(s))
        k == LastSlashUpTo(s, e)
    IN  SubSeq(s, k + 1, e)

\* The components of a path string: the maximal "/"-free pieces, in order.
RECURSIVE Components(_)
Components(s) ==
    IF Len(s) = 0 THEN <<>>
    ELSE IF s[1] = SL THEN Components(Tail(s))
    ELSE LET k == CHOOSE j \in 1..Len(s) :
                      /\ \A i \in 1..j : s[i] # SL
                      /\ (j = Len(s) \/ s[j + 1] = SL)
         IN  <<SubSeq(s, 1, k)>> \o Components(SubSeq(s, k + 1, Len(s)))

\* Path resolution of an absolute path string as the kernel does it, given
\* that every directory it walks through exists: "." stays, ".." goes up
\* (and stays at the root).  The result is the list of component names.
RECURSIVE Walk(_, _)
Walk(done, todo) ==
    IF Len(todo) = 0 THEN done
    ELSE IF Head(todo) = <<".">> THEN Walk(done, Tail(todo))
    ELSE IF Head(todo) = <<"..">>
         THEN Walk(IF Len(done) = 0 THEN done ELSE SubSeq(done, 1, Len(done) - 1),
                   Tail(todo))
    ELSE Walk(Append(done, Head(todo)), Tail(todo))

Resolve(s) == Walk(<<>>, Components(s))

\* The resolved workspace root, and "lies under the workspace root".
AppDir == Resolve(AppRoot)

UnderApp(p) == Len(p) >= Len(AppDir) /\ SubSeq(p, 1, Len(AppDir)) = AppDir

\* ------------------------------------------------------------------------
\* Shell quoting and echo (the write command of POST /:id/edit)
\* ------------------------------------------------------------------------

\* content.replace(/'/g, "'\\''"): every single quote becomes the four
\* characters quote, backslash, quote, quote.
\* A command built from the content as it is, without the replacement.
EscapeNothing(c) == c

RECURSIVE Escape(_)
Escape(c) ==
    IF Len(c) = 0 THEN <<>>
    ELSE (IF Head(c) = QT THEN <<QT, BS, QT, QT>> ELSE <<Head(c)>>)
         \o Escape(Tail(c))

\* What /bin/sh makes of one word: inside single quotes every character is
\* literal up to the closing quote; outside, a backslash makes the next
\* character literal.  q tells whether the scan is inside quotes.
RECURSIVE ShWord(_, _)
ShWord(w, q) ==
    IF Len(w) = 0 THEN <<>>
    ELSE IF q THEN (IF Head(w) = QT THEN ShWord(Tail(w), FALSE)
                    ELSE <<Head(w)>> \o ShWord(Tail(w), TRUE))
    ELSE IF Head(w) = QT THEN ShWord(Tail(w), TRUE)
    ELSE IF Head(w) = BS /\ Len(w) >= 2
         THEN <<w[2]>> \o ShWord(Tail(Tail(w)), FALSE)
    ELSE <<Head(w)>> \o ShWord(Tail(w), FALSE)

\* The argument that echo receives: '<escaped content>' parsed by the shell.
EchoArg(content) == ShWord(<<QT>> \o Escape(content) \o <<QT>>, FALSE)

\* The escape sequences that the echo builtin of dash interprets, as far as
\* the contents of the model hold them: a double backslash is one backslash
\* and backslash n is a line feed; a backslash before any other character of
\* the model is printed as it is.
RECURSIVE EchoEscapes(_)
EchoEscapes(arg) ==
    IF Len(arg) = 0 THEN <<>>
    ELSE IF Head(arg) = BS /\ Len(arg) >= 2 /\ arg[2] = BS
         THEN <<BS>> \o EchoEscapes(Tail(Tail(arg)))
    ELSE IF Head(arg) = BS /\ Len(arg) >= 2 /\ arg[2] = "n"
         THEN <<NL>> \o EchoEscapes(Tail(Tail(arg)))
    ELSE <<Head(arg)>> \o EchoEscapes(Tail(arg))

\* The echo builtin of the image's /bin/sh (dash): a first argument -n
\* prints the remaining arguments (none here) without a newline; anything
\* else is printed, with its escape sequences interpreted, followed by a
\* newline.
Echo(arg) == IF arg = <<"-", "n">> THEN <<>> ELSE EchoEscapes(arg) \o <<NL>>

\* `echo '${content.replace(...)}'`: the bytes sent to the temporary file.
EchoBytes(content) == Echo(EchoArg(content))

\* What cat, mv or docker cp print on stderr when they fail.
ErrText == <<"E">>

\* ------------------------------------------------------------------------
\* File systems (the container's, and the host's /tmp)
\* ------------------------------------------------------------------------
\* A file system is a function from the resolved paths that exist to nodes.
\* o is the owning user, c the bytes of a file, by the request slot whose
\* command created the node on the host (0 in the container).

DirNode(o, by) == [t |-> "dir", o |-> o, c |-> <<>>, by |-> by]

FileNode(o, c, by) == [t |-> "file", o |-> o, c |-> c, by |-> by]

Exists(fs, p) == p \in DOMAIN fs

IsDir(fs, p) == Exists(fs, p) /\ fs[p].t = "dir"

IsFile(fs, p) == Exists(fs, p) /\ fs[p].t = "file"

Parent(p) == SubSeq(p, 1, Len(p) - 1)

IsPrefix(p, q) == Len(p) <= Len(q) /\ SubSeq(q, 1, Len(p)) = p

TmpDir == <<<<"tmp">>>>

\* fs with node n put at path p.
Put(fs, p, n) == [q \in (DOMAIN fs) \cup {p} |-> IF q = p THEN n ELSE fs[q]]

\* fs without p and everything below it.
RemoveTree(fs, p) == [q \in {x \in DOMAIN fs : ~IsPrefix(p, x)} |-> fs[q]]

\* May user u create, replace or delete entries of directory d?  root may
\* everywhere; another user in the directories it owns and in /tmp.
Writable(fs, d, u) == IsDir(fs, d) /\ (u = "root" \/ fs[d].o = u \/ d = TmpDir)

\* `mkdir -p path` run by user u for slot by (root in the container, the
\* server's user below /tmp on the host: both may create what they ask
\* for): the directories along the path are made one after the other, and
\* the command fails at the first component that exists as a file.
MkdirP(fs, path, u, by) ==
    LET tgt == Resolve(path)
        bad == {k \in 1..Len(tgt) : IsFile(fs, SubSeq(tgt, 1, k))}
        lim == IF bad = {} THEN Len(tgt)
               ELSE (CHOOSE k \in bad : \A j \in bad : k <= j) - 1
        new == {SubSeq(tgt, 1, k) : k \in 1..lim} \ DOMAIN fs
    IN  [ok |-> bad = {},
         fs |-> [q \in (DOMAIN fs) \cup new |->
                   IF q \in new THEN DirNode(u, by) ELSE fs[q]]]

\* The User of each container.exec: of mkdirExec, of the exec of the write
\* command, of verifyExec, of the find of load-project and of the find of
\* load-paths.
MkdirUser == "root"

\* The write command run with the privileges of the directory creation.
WriteUserPrivileged == "root"

WriteUser == "node"

VerifyUser == "node"

ListUser == "node"

PathsUser == "node"

\* `chown -R node:node path` run by root.
ChownR(fs, path) ==
    LET tgt == Resolve(path)
    IN  [q \in DOMAIN fs |-> IF IsPrefix(tgt, q) THEN [fs[q] EXCEPT !.o = "node"]
                             ELSE fs[q]]

\* `mkdir -p ${dirPath} && chown -R node:node ${dirPath}` run by root.
MkdirChown(fs, dirPath) ==
    LET m == MkdirP(fs, dirPath, MkdirUser, 0)
    IN  IF m.ok THEN ChownR(m.fs, dirPath) ELSE m.fs

\* `> file` run by user u: the file is created or truncated and gets the
\* bytes.  Fails when file is a directory or cannot be created.
Redirect(fs, file, bytes, u) ==
    LET p == Resolve(file)
        ok == /\ Len(p) > 0
              /\ ~IsDir(fs, p)
              /\ IF IsFile(fs, p) THEN fs[p].o = u \/ u = "root"
                 ELSE Writable(fs, Parent(p), u)
    IN  [ok |-> ok,
         fs |-> IF ok THEN Put(fs, p, FileNode(u, bytes, 0)) ELSE fs]

\* `mv src dst` run by user u, src a file: into dst when dst is a directory,
\* else over dst (rename(2): the old dst, if any, is replaced in one step).
Mv(fs, src, dst, u) ==
    LET s == Resolve(src)
        d == Resolve(dst)
        into == IsDir(fs, d)
        to == IF into THEN Append(d, s[Len(s)]) ELSE d
        ok == /\ IsFile(fs, s)
              /\ Len(to) > 0
              /\ ~IsDir(fs, to)
              /\ into \/ dst[Len(dst)] # SL
              /\ Writable(fs, Parent(to), u)
              /\ Writable(fs, Parent(s), u)
    IN  [ok |-> ok,
         fs |-> IF ok THEN Put(RemoveTree(fs, s), to, [fs[s] EXCEPT !.o = u])
                ELSE fs]

\* `cat path`: the bytes of the file on stdout, or a message on stderr.
\* The exec stream carries both.
Cat(fs, path) ==
    LET p == Resolve(path)
    IN  IF IsFile(fs, p) /\ path[Len(path)] # SL THEN fs[p].c ELSE ErrText

\* ------------------------------------------------------------------------
\* State
\* ------------------------------------------------------------------------

\* Request slots: the HTTP requests that can be in flight at the same time.
Slots == {1, 2}

\* Container names: `dev-${Date.now()}` for every value of the clock.
CidOf(t) == <<"dev-">> \o NumStr(t)

Cids == {CidOf(t) : t \in 0..MaxClock}

\* A field of a request body that is absent.
Missing == <<>>

\* A field that a response body does not have.
Undefined == "undefined"

VARIABLES
    now,      \* Date.now()
    status,   \* Docker: container name -> absent/created/running/stopped/removed
    cfs,      \* the file system of the running container
    hfs,      \* the host's file system (/tmp)
    req,      \* slot -> the request handled there and the locals of its handler
    hist,     \* the successful edits of one path of one container in a row
    edits,    \* the number of edit requests that reached the container
    faults,   \* the number of host commands that failed for the host's reasons
    mounted,          \* the inspector of the page: "no", "yes" or "crashed"
    isInspecting,     \* useState(false)
    selectedElements, \* useState([]): the array (ref) and its entries (items)
    rendered,         \* the state that the last render of the inspector saw
    listener,         \* the state that the registered event handlers saw
    body,             \* the selection guides that are children of document.body
    guides,           \* the number of selection guides created
    posted            \* the event handled last and the messages it posted

\* The inspector's variables.
uivars == <<mounted, isInspecting, selectedElements, rendered, listener, body,
            guides, posted>>

\* The orchestrator's variables and the inspector's.
vars == <<now, status, cfs, hfs, req, hist, edits, faults, mounted,
          isInspecting, selectedElements, rendered, listener, body, guides,
          posted>>

\* The page before the inspector is mounted: the initial values of useState,
\* no handler registered, no guide, nothing posted.
NoSelection == [ref |-> 0, items |-> <<>>]

NoListener == [on |-> FALSE, size |-> 0, items |-> <<>>]

InitUi ==
    /\ mounted = "no"
    /\ isInspecting = FALSE
    /\ selectedElements = NoSelection
    /\ rendered = [isInspecting |-> FALSE, selectedElements |-> NoSelection]
    /\ listener = NoListener
    /\ body = {}
    /\ guides = 0
    /\ posted = [by |-> <<"none">>, msgs |-> <<>>]

\* The file system of a container made from the image dev-app: the root, the
\* workspace /app owned by node (Dockerfile: chown -R node:node /app) with
\* package.json, node_modules/vite (RUN pnpm install), src/main and the
\* instrumentation component src/inspection-handler (COPY . .), and /tmp.
ImageFS ==
    (<<>> :> DirNode("root", 0))
    @@ (AppDir :> DirNode("node", 0))
    @@ (Append(AppDir, <<"package.json">>) :> FileNode("node", <<"p">>, 0))
    @@ (Append(AppDir, <<"node_modules">>) :> DirNode("node", 0))
    @@ (AppDir \o <<<<"node_modules">>, <<"vite">>>> :> FileNode("node", <<"v">>, 0))
    @@ (Append(AppDir, <<"src">>) :> DirNode("node", 0))
    @@ (AppDir \o <<<<"src">>, <<"main">>>> :> FileNode("node", <<"m">>, 0))
    @@ (AppDir \o <<<<"src">>, <<"inspection-handler">>>> :> FileNode("node", <<"i">>, 0))
    @@ (TmpDir :> DirNode("root", 0))

\* The host's file system: the root and /tmp.
HostFS == (<<>> :> DirNode("root", 0)) @@ (TmpDir :> DirNode("root", 0))

NoResp == [code |-> 0, error |-> "", details |-> "", content |-> <<>>,
           path |-> <<>>, n |-> 0, sent |-> 0]

\* A slot with no request.
IdleReq ==
    [op |-> "none", pc |-> "idle", cid |-> Missing, fp |-> Missing,
     content |-> Missing, norm |-> <<>>, tmp |-> <<>>, mk |-> "none",
     err |-> <<>>, vc |-> <<>>, arch |-> "none", td |-> <<>>,
     files |-> <<>>, idx |-> 0, task |-> <<>>, out |-> <<>>, leak |-> FALSE,
     fd |-> <<>>, skip |-> {}, ex |-> {}, at |-> "idle", resp |-> NoResp]

Init ==
    /\ now = 0
    /\ status = [c \in Cids |-> "absent"]
    /\ cfs = ImageFS
    /\ hfs = HostFS
    /\ req = [r \in Slots |-> IdleReq]
    /\ hist = <<>>
    /\ edits = 0
    /\ faults = 0
    /\ InitUi

\* A slot can take a new request when it holds none or an answered one whose
\* in-container commands have all run.
Free(r) == req[r].pc \in {"idle", "done"} /\ req[r].mk # "pending"

\* res.json(...) / res.status(code).json(...): the response of request q;
\* at keeps the step of the handler that sent it.
Success(q, content, path, n) ==
    [q EXCEPT !.pc = "done", !.at = q.pc,
              !.resp = [code |-> 200, error |-> "", details |-> "",
                        content |-> content, path |-> path, n |-> n,
                        sent |-> q.resp.sent + 1]]

Failure(q, code, error, details) ==
    [q EXCEPT !.pc = "done", !.at = q.pc,
              !.resp = [code |-> code, error |-> error, details |-> details,
                        content |-> <<>>, path |-> <<>>, n |-> 0,
                        sent |-> q.resp.sent + 1]]

\* A new request in a slot; the temporary files a former request of the slot
\* left on the host are from now on nobody's in flight.
Accept(op, cid, fp, content) ==
    [IdleReq EXCEPT !.op = op, !.pc = "start", !.cid = cid, !.fp = fp,
                    !.content = content]

\* The exec of command cmd that request q made has run in the container as
\* user u.
Ran(q, cmd, u) == [q EXCEPT !.ex = q.ex \cup {<<cmd, u>>}]

Disown(fs, r) ==
    [p \in DOMAIN fs |-> IF fs[p].by = r THEN [fs[p] EXCEPT !.by = 0] ELSE fs[p]]

\* Time passes.
Tick ==
    /\ now < MaxClock
    /\ now' = now + 1
    /\ UNCHANGED <<status, cfs, hfs, req, hist, edits, faults>>

\* ------------------------------------------------------------------------
\* POST /api/container/start
\* ------------------------------------------------------------------------

\* A Docker that replaces a container of the same name by a new one: the
\* resurrection that C16 rules out.
CanCreateOver(c) == status[c] \in {"absent", "created", "running", "stopped", "removed"}

\* Docker refuses a second container of the same name.
CanCreate(c) == status[c] \in {"absent", "removed"}

\* Docker starts a created container unless the host port 3001 it binds is
\* taken by a running one.
CanStart(c) == status[c] = "created" /\ \A d \in Cids : status[d] # "running"

\* The handler up to `await execAsync("docker build ...")`.
StartRequest(r) ==
    /\ Free(r)
    /\ req' = [req EXCEPT ![r] = [Accept("start", CidOf(now), Missing, Missing)
                                   EXCEPT !.pc = "build", !.td = <<"build">>]]
    /\ hfs' = Disown(hfs, r)
    /\ UNCHANGED <<now, status, cfs, hist, edits, faults>>

\* A handler that calls docker.createContainer whether or not the build
\* succeeded: the sequencing that C15 rules out.
StartBuiltRegardless(r, ok) ==
    /\ req[r].op = "start" /\ req[r].pc = "build"
    /\ req' = [req EXCEPT ![r].pc = "create",
                          ![r].td = @ \o <<IF ok THEN "buildOk" ELSE "buildErr",
                                           "create">>]
    /\ UNCHANGED <<now, status, cfs, hfs, hist, edits, faults>>

\* docker build ends; on success docker.createContainer is called.  td
\* keeps the calls made and how each ended.
StartBuilt(r, ok) ==
    /\ req[r].op = "start" /\ req[r].pc = "build"
    /\ req' = [req EXCEPT ![r] =
                 IF ok THEN [@ EXCEPT !.pc = "create",
                                      !.td = @ \o <<"buildOk", "create">>]
                 ELSE Failure([@ EXCEPT !.td = Append(@, "buildErr")],
                              500, "Failed to start container", "build")]
    /\ UNCHANGED <<now, status, cfs, hfs, hist, edits, faults>>

\* docker.createContainer ends; on success container.start is called.
StartCreated(r) ==
    /\ req[r].op = "start" /\ req[r].pc = "create"
    /\ IF CanCreate(req[r].cid)
       THEN /\ status' = [status EXCEPT ![req[r].cid] = "created"]
            /\ req' = [req EXCEPT ![r].pc = "run",
                                  ![r].td = @ \o <<"createOk", "start">>]
       ELSE /\ req' = [req EXCEPT ![r] =
                         Failure([@ EXCEPT !.td = Append(@, "createErr")],
                                 500, "Failed to start container", "create")]
            /\ UNCHANGED status
    /\ UNCHANGED <<now, cfs, hfs, hist, edits, faults>>

\* container.start ends; the response follows.
StartStarted(r) ==
    /\ req[r].op = "start" /\ req[r].pc = "run"
    /\ IF CanStart(req[r].cid)
       THEN /\ status' = [status EXCEPT ![req[r].cid] = "running"]
            /\ cfs' = ImageFS
            /\ req' = [req EXCEPT ![r] =
                         Success([@ EXCEPT !.td = Append(@, "startOk")],
                                 <<"running">>, <<>>, 0)]
       ELSE /\ req' = [req EXCEPT ![r] =
                         Failure([@ EXCEPT !.td = Append(@, "startErr")],
                                 500, "Failed to start container", "start")]
            /\ UNCHANGED <<status, cfs>>
    /\ UNCHANGED <<now, hfs, hist, edits, faults>>

\* ------------------------------------------------------------------------
\* POST /api/container/finish
\* ------------------------------------------------------------------------

\* The functions of require("fs").promises (node 20).  The stream
\* constructors createReadStream and createWriteStream belong to
\* require("fs") only.
FsPromisesApi ==
    {"access", "appendFile", "chmod", "chown", "copyFile", "cp", "lchmod",
     "lchown", "link", "lstat", "lutimes", "mkdir", "mkdtemp", "open",
     "opendir", "readdir", "readFile", "readlink", "realpath", "rename",
     "rm", "rmdir", "stat", "statfs", "symlink", "truncate", "unlink",
     "utimes", "watch", "writeFile"}

\* An output that opens, so that the close and error handlers are
\* registered.
OutputOpensAnyway == TRUE

\* fsPromises.createWriteStream("./backup.zip"): calling a property that is
\* not a function throws a TypeError.
OutputOpens == "createWriteStream" \in FsPromisesApi

\* A catch block that stops and removes the container before it answers:
\* the teardown that C2 rules out after a failed archive.
FinishCatchTeardown(q) ==
    Failure([q EXCEPT !.arch = "nostream", !.td = <<"stop", "remove">>],
            500, "Operation failed", "TypeError")

\* A catch block that reports the backup as made although its output was
\* never opened: the early success that C19 rules out.
FinishCatchSuccess(q) ==
    Success([q EXCEPT !.arch = "nostream"], <<"./backup.zip">>, <<>>, 0)

\* The outer catch of the handler: 500 "Operation failed"; nothing else.
FinishCatch(q) ==
    Failure([q EXCEPT !.arch = "nostream"], 500, "Operation failed", "TypeError")

\* The whole handler.  With a free slot: the synchronous body (validation,
\* opening the output, registering the close and error handlers, piping and
\* finalizing the archive).  Otherwise its callbacks: the archive's error
\* event, the output's close event and the steps of the close handler
\* (container.stop, then container.remove, then the response).
Finish(r, cid) ==
    IF Free(r)
    THEN /\ req' = [req EXCEPT ![r] =
                      LET q == Accept("finish", cid, Missing, Missing)
                      IN  IF cid = Missing
                          THEN Failure(q, 400, "Container ID is required", Undefined)
                          ELSE IF ~OutputOpens THEN FinishCatch(q)
                          ELSE [q EXCEPT !.pc = "archiving", !.arch = "open"]]
         /\ hfs' = Disown(hfs, r)
         /\ UNCHANGED <<now, status, cfs, hist, edits, faults>>
    ELSE /\ req[r].op = "finish"
         /\ req[r].pc \in {"archiving", "stopping", "removing"}
         /\ UNCHANGED <<now, cfs, hfs, hist, edits, faults>>
         /\ CASE req[r].pc = "archiving" ->
                   \E ev \in {"error", "close"} :
                      /\ UNCHANGED status
                      /\ IF ev = "error"
                         THEN /\ req[r].arch = "open"
                              /\ req' = [req EXCEPT ![r] =
                                    [Failure(@, 500, "Backup failed", "archive")
                                       EXCEPT !.pc = "archiving", !.arch = "error"]]
                         ELSE req' = [req EXCEPT ![r].pc = "stopping",
                                                 ![r].td = Append(@, "stop")]
              [] req[r].pc = "stopping" ->
                   IF status[req[r].cid] = "running"
                   THEN /\ status' = [status EXCEPT ![req[r].cid] = "stopped"]
                        /\ req' = [req EXCEPT ![r].pc = "removing",
                                              ![r].td = @ \o <<"stopOk", "remove">>]
                   ELSE /\ UNCHANGED status
                        /\ req' = [req EXCEPT ![r] =
                              Failure([@ EXCEPT !.td = Append(@, "stopErr")],
                                      500, "Failed to stop container", "stop")]
              [] req[r].pc = "removing" ->
                   IF status[req[r].cid] = "stopped"
                   THEN /\ status' = [status EXCEPT ![req[r].cid] = "removed"]
                        /\ req' = [req EXCEPT ![r] =
                              Success([@ EXCEPT !.td = Append(@, "removeOk")],
                                      <<"./backup.zip">>, <<>>, 0)]
                   ELSE /\ UNCHANGED status
                        /\ req' = [req EXCEPT ![r] =
                              Failure([@ EXCEPT !.td = Append(@, "removeErr")],
                                      500, "Failed to stop container", "remove")]

\* ------------------------------------------------------------------------
\* POST /api/container/:containerId/edit
\* ------------------------------------------------------------------------

\* A normalization that keeps the leading "/" of filePath.
normalizedPathKeepSlash(filePath) ==
    IF StartsWith(filePath, AppPrefix) THEN filePath ELSE AppPrefix \o filePath

\* const normalizedPath = filePath.startsWith("/app/") ? filePath
\*   : `/app/${filePath.startsWith("/") ? filePath.slice(1) : filePath}`
normalizedPath(filePath) ==
    IF StartsWith(filePath, AppPrefix) THEN filePath
    ELSE AppPrefix \o (IF StartsWith(filePath, <<SL>>) THEN Slice1(filePath)
                       ELSE filePath)

\* const tempFile = `/tmp/${path.basename(normalizedPath)}-${Date.now()}`
EditTempFile(norm, t) == <<SL, "tmp", SL>> \o basename(norm) \o <<"-">> \o NumStr(t)

\* `echo '...' > ${tempFile} && mv ${tempFile} ${normalizedPath}` run by node:
\* the file system afterwards and what the command printed (stderr).
WriteCommand(fs, content, tempFile, norm) ==
    LET w == Redirect(fs, tempFile, EchoBytes(content), WriteUser)
        m == Mv(w.fs, tempFile, norm, WriteUser)
    IN  IF ~w.ok THEN [fs |-> w.fs, err |-> ErrText]
        ELSE IF ~m.ok THEN [fs |-> m.fs, err |-> ErrText]
        ELSE [fs |-> m.fs, err |-> <<>>]

\* `stream.on("data", (chunk) => { ... += chunk.toString() })` on the stream
\* of an exec without Tty: Docker multiplexes stdout and stderr, and what the
\* command printed arrives behind a frame header, which is collected too.
StreamHeader == "H"

Collected(out) == IF out = <<>> THEN <<>> ELSE <<StreamHeader>> \o out

\* An exec session can be created and started in a running container only.
CanExec(c) == c \in Cids /\ status[c] = "running"

\* A handler without the emptiness test of the read-back.
VerifyNeverFails(verifyContent) == FALSE

\* `if (!verifyContent) throw new Error(...)`
VerifyFails(verifyContent) == Len(verifyContent) = 0

\* The edits of one path of one container that succeeded in a row.
HistAtAccept(cid, fp) ==
    IF hist # <<>> /\ (hist[1].cid # cid \/ hist[1].fp # fp) THEN <<>> ELSE hist

HistAtSuccess(q) ==
    LET e == [cid |-> q.cid, fp |-> q.fp, c |-> q.content]
    IN  IF hist = <<>> THEN <<e>> ELSE <<hist[Len(hist)], e>>

\* A handler that validates filePath only: the missing check that C17 rules
\* out.
EditRequestPathOnly(r, cid, fp, content, max) ==
    /\ Free(r)
    /\ LET reaches == fp # Missing /\ CanExec(cid)
       IN  /\ reaches => edits < max
           /\ edits' = IF reaches THEN edits + 1 ELSE edits
    /\ req' = [req EXCEPT ![r] =
                 LET q == Accept("edit", cid, fp, content)
                 IN  IF fp = Missing
                     THEN Failure(q, 400, "filePath and content are required", Undefined)
                     ELSE IF ~CanExec(cid)
                     THEN Failure([q EXCEPT !.norm = normalizedPath(fp)], 500,
                                  "Failed to modify file in container", "exec")
                     ELSE [q EXCEPT !.norm = normalizedPath(fp), !.pc = "mkdir"]]
    /\ hfs' = Disown(hfs, r)
    /\ hist' = HistAtAccept(cid, fp)
    /\ UNCHANGED <<now, status, cfs, faults>>

\* The handler up to `await container.exec(...)` of the mkdir command:
\* validation, normalizedPath, dirPath, creation of the exec session.
EditRequest(r, cid, fp, content, max) ==
    /\ Free(r)
    /\ LET reaches == fp # Missing /\ content # Missing /\ CanExec(cid)
       IN  /\ reaches => edits < max
           /\ edits' = IF reaches THEN edits + 1 ELSE edits
    /\ req' = [req EXCEPT ![r] =
                 LET q == Accept("edit", cid, fp, content)
                 IN  IF fp = Missing \/ content = Missing
                     THEN Failure(q, 400, "filePath and content are required", Undefined)
                     ELSE IF ~CanExec(cid)
                     THEN Failure([q EXCEPT !.norm = normalizedPath(fp)], 500,
                                  "Failed to modify file in container", "exec")
                     ELSE [q EXCEPT !.norm = normalizedPath(fp), !.pc = "mkdir"]]
    /\ hfs' = Disown(hfs, r)
    /\ hist' = HistAtAccept(cid, fp)
    /\ UNCHANGED <<now, status, cfs, faults>>

\* `await mkdirExec.start()` returns as soon as the command is started, not
\* when it has ended.  The handler goes on: tempFile, writeCommand and the
\* creation of the exec session of the write command.
EditMkdirStarted(r) ==
    /\ req[r].op = "edit" /\ req[r].pc = "mkdir"
    /\ req' = [req EXCEPT ![r] =
                 IF ~CanExec(@.cid)
                 THEN Failure(@, 500, "Failed to modify file in container", "exec")
                 ELSE [@ EXCEPT !.mk = "pending", !.pc = "write",
                                !.tmp = EditTempFile(req[r].norm, now)]]
    /\ UNCHANGED <<now, status, cfs, hfs, hist, edits, faults>>

\* The mkdir command of request r runs in the container (as root).
MkdirRun(r) ==
    /\ req[r].mk = "pending"
    /\ cfs' = MkdirChown(cfs, dirname(req[r].norm))
    /\ req' = [req EXCEPT ![r] = Ran([@ EXCEPT !.mk = "done"], "mkdir", MkdirUser)]
    /\ UNCHANGED <<now, status, hfs, hist, edits, faults>>

\* `await exec.start()` and the wait for the stream's end: the write command
\* runs in the container, its output is collected in errorOutput (and only
\* logged), and the exec session of `cat` is created.
EditWritten(r) ==
    /\ req[r].op = "edit" /\ req[r].pc = "write"
    /\ LET w == WriteCommand(cfs, req[r].content, req[r].tmp, req[r].norm)
       IN  /\ cfs' = w.fs
           /\ req' = [req EXCEPT ![r] =
                        Ran([@ EXCEPT !.err = Collected(w.err), !.pc = "verify"],
                            "write", WriteUser)]
    /\ UNCHANGED <<now, status, hfs, hist, edits, faults>>

\* The stream of the write command emits "error" instead of "end" (the
\* connection to Docker broke, before or after the command ran): the promise
\* is rejected by its error handler and the catch block answers 500.
EditWriteStreamError(r) ==
    /\ req[r].op = "edit" /\ req[r].pc = "write"
    /\ \E ran \in BOOLEAN :
         /\ cfs' = IF ran THEN WriteCommand(cfs, req[r].content, req[r].tmp,
                                            req[r].norm).fs
                   ELSE cfs
         /\ req' = [req EXCEPT ![r] =
                      Failure(IF ran THEN Ran(@, "write", WriteUser) ELSE @, 500,
                              "Failed to modify file in container", "stream")]
    /\ UNCHANGED <<now, status, hfs, hist, edits, faults>>

\* The stream of cat emits "error" instead of "end": the promise has a
\* handler for "end" only and is never settled, so the handler never goes on
\* and sends no response.
EditVerifyStreamError(r) ==
    /\ req[r].op = "edit" /\ req[r].pc = "verify"
    /\ req' = [req EXCEPT ![r].pc = "v_unsettled"]
    /\ UNCHANGED <<now, status, cfs, hfs, hist, edits, faults>>

\* The write command step by step, as it runs next to the commands of other
\* requests.  First the shell opens tempFile for `>`: the file is created,
\* or emptied when it exists (it stays the same file).  fd is where the file
\* that the shell holds open is found; <<>> when it holds none.  When the
\* file cannot be opened the command has ended and the stream with it.
EditWriteOpened(r) ==
    /\ req[r].op = "edit" /\ req[r].pc = "write"
    /\ LET w == Redirect(cfs, req[r].tmp, <<>>, WriteUser)
       IN  /\ cfs' = w.fs
           /\ req' = [req EXCEPT ![r] =
                        Ran(IF w.ok
                            THEN [@ EXCEPT !.pc = "w_echo",
                                           !.fd = Resolve(req[r].tmp)]
                            ELSE [@ EXCEPT !.pc = "verify",
                                           !.err = Collected(ErrText)],
                            "write", WriteUser)]
    /\ UNCHANGED <<now, status, hfs, hist, edits, faults>>

\* The bytes that a file holds after bytes were written at its start.
WriteAt0(old, bytes) ==
    IF Len(bytes) >= Len(old) THEN bytes
    ELSE bytes \o SubSeq(old, Len(bytes) + 1, Len(old))

\* echo writes its bytes at the start of the file that the shell holds
\* open, wherever a mv of another request has put it since; nobody sees them
\* when the file has been replaced.
EditWriteEchoed(r) ==
    /\ req[r].op = "edit" /\ req[r].pc = "w_echo"
    /\ cfs' = IF req[r].fd # <<>>
              THEN [cfs EXCEPT ![req[r].fd].c = WriteAt0(@, EchoBytes(req[r].content))]
              ELSE cfs
    /\ req' = [req EXCEPT ![r].pc = "w_mv", ![r].fd = <<>>]
    /\ UNCHANGED <<now, status, hfs, hist, edits, faults>>

\* mv tempFile normalizedPath runs and the stream ends: the output is
\* collected in errorOutput and the exec session of `cat` is created.  A
\* file that another shell holds open moves with its name, and is lost to
\* the file system when this file replaces it.
EditWriteMoved(r) ==
    /\ req[r].op = "edit" /\ req[r].pc = "w_mv"
    /\ LET m == Mv(cfs, req[r].tmp, req[r].norm, WriteUser)
           from == Resolve(req[r].tmp)
           d == Resolve(req[r].norm)
           to == IF IsDir(cfs, d) THEN Append(d, from[Len(from)]) ELSE d
       IN  /\ cfs' = m.fs
           /\ req' = [s \in Slots |->
                        IF s = r
                        THEN [req[s] EXCEPT !.pc = "verify",
                                            !.err = IF m.ok THEN <<>>
                                                    ELSE Collected(ErrText)]
                        ELSE IF ~m.ok \/ req[s].fd = <<>> THEN req[s]
                        ELSE IF req[s].fd = from THEN [req[s] EXCEPT !.fd = to]
                        ELSE IF req[s].fd = to THEN [req[s] EXCEPT !.fd = <<>>]
                        ELSE req[s]]
    /\ UNCHANGED <<now, status, hfs, hist, edits, faults>>

\* `await verifyExec.start()` and the wait for the stream's end: cat runs,
\* its output is collected in verifyContent, and the response is sent.
EditVerified(r) ==
    /\ req[r].op = "edit" /\ req[r].pc = "verify"
    /\ LET vc == Collected(Cat(cfs, req[r].norm))
           q == Ran([req[r] EXCEPT !.vc = vc], "verify", VerifyUser)
       IN  IF VerifyFails(vc)
           THEN /\ req' = [req EXCEPT ![r] =
                             Failure(q, 500, "Failed to modify file in container",
                                     "File appears to be empty after writing")]
                /\ hist' = <<>>
           ELSE /\ req' = [req EXCEPT ![r] = Success(q, <<>>, q.norm, Len(vc))]
                /\ hist' = HistAtSuccess(q)
    /\ UNCHANGED <<now, status, cfs, hfs, edits, faults>>

\* ------------------------------------------------------------------------
\* POST /api/container/:containerId/file
\* ------------------------------------------------------------------------

\* const tempDir = `/tmp/dev-container-${containerId}-${Date.now()}`
FileTempDir(cid, t) ==
    <<SL, "tmp", SL, "dev-container-">> \o cid \o <<"-">> \o NumStr(t)

\* const tempFile = `${tempDir}/${path.basename(filePath)}`
FileTempFile(tempDir, fp) == tempDir \o <<SL>> \o basename(fp)

\* The source of `docker cp ${containerId}:/app/${filePath} ...`
CopySource(fp) == AppPrefix \o fp

\* docker cp reads the file system of an existing container: that of
\* the running one, the image's for a container that is not running.
HasFs(c) == c \in Cids /\ status[c] \in {"created", "running", "stopped"}

FsOf(c) == IF c \in Cids /\ status[c] = "running" THEN cfs ELSE ImageFS

\* `docker cp c:src dst` for slot by: a file is copied to dst (into dst when
\* dst is a directory), a directory with all it holds.  Fails when src or
\* the directory of dst does not exist.
DockerCp(c, src, fs, dst, by) ==
    LET from == FsOf(c)
        s == Resolve(src)
        d0 == Resolve(dst)
        d == IF IsDir(fs, d0) /\ Len(s) > 0 THEN Append(d0, s[Len(s)]) ELSE d0
        ok == /\ HasFs(c)
              /\ Exists(from, s)
              /\ (IsFile(from, s) => src[Len(src)] # SL)
              /\ Len(d) > 0
              /\ IsDir(fs, Parent(d))
              /\ ~IsDir(fs, d)
        sub == {q \in DOMAIN from : IsPrefix(s, q)}
        img(q) == d \o SubSeq(q, Len(s) + 1, Len(q))
        new == {img(q) : q \in sub}
    IN  [ok |-> ok,
         fs |-> IF ~ok THEN fs
                ELSE [p \in (DOMAIN fs) \cup new |->
                        IF p \in new
                        THEN LET q == CHOOSE x \in sub : img(x) = p
                             IN  [from[q] EXCEPT !.o = "host", !.by = by]
                        ELSE fs[p]]]

\* The handler up to `await execAsync(mkdir -p tempDir)`.
FileRequest(r, cid, fp) ==
    /\ Free(r)
    /\ req' = [req EXCEPT ![r] =
                 LET q == Accept("file", cid, fp, Missing)
                 IN  IF fp = Missing
                     THEN Failure(q, 400, "filePath is required", Undefined)
                     ELSE [q EXCEPT !.tmp = FileTempDir(cid, now), !.pc = "f_mkdir"]]
    /\ hfs' = Disown(hfs, r)
    /\ UNCHANGED <<now, status, cfs, hist, edits, faults>>

\* mkdir -p tempDir ends (ok) or fails; docker cp is started, or the inner
\* catch entered.
FileMkdir(r, ok) ==
    /\ ~ok => faults < MaxFaults
    /\ faults' = IF ok THEN faults ELSE faults + 1
    /\ req[r].op = "file" /\ req[r].pc = "f_mkdir"
    /\ LET m == MkdirP(hfs, req[r].tmp, "host", r)
       IN  IF ok /\ m.ok
           THEN /\ hfs' = m.fs
                /\ req' = [req EXCEPT ![r].pc = "f_cp"]
           ELSE /\ hfs' = hfs
                /\ req' = [req EXCEPT ![r].pc = "f_catch"]
    /\ UNCHANGED <<now, status, cfs, hist, edits>>

\* docker cp ends; fsPromises.readFile is started, or the inner catch entered.
FileCopied(r) ==
    /\ req[r].op = "file" /\ req[r].pc = "f_cp"
    /\ LET c == DockerCp(req[r].cid, CopySource(req[r].fp), hfs,
                         FileTempFile(req[r].tmp, req[r].fp), r)
       IN  /\ hfs' = c.fs
           /\ req' = [req EXCEPT ![r].pc = IF c.ok THEN "f_read" ELSE "f_catch"]
    /\ UNCHANGED <<now, status, cfs, hist, edits, faults>>

\* readFile ends; rm -rf tempDir is started, or the inner catch entered.
FileRead(r) ==
    /\ req[r].op = "file" /\ req[r].pc = "f_read"
    /\ LET f == Resolve(FileTempFile(req[r].tmp, req[r].fp))
       IN  req' = [req EXCEPT ![r] =
                     IF IsFile(hfs, f) THEN [@ EXCEPT !.vc = hfs[f].c, !.pc = "f_rm"]
                     ELSE [@ EXCEPT !.pc = "f_catch"]]
    /\ UNCHANGED <<now, status, cfs, hfs, hist, edits, faults>>

\* rm -rf tempDir ends (ok: the response follows) or fails (inner catch).
FileRemoved(r, ok) ==
    /\ ~ok => faults < MaxFaults
    /\ faults' = IF ok THEN faults ELSE faults + 1
    /\ req[r].op = "file" /\ req[r].pc = "f_rm"
    /\ IF ok
       THEN /\ hfs' = RemoveTree(hfs, Resolve(req[r].tmp))
            /\ req' = [req EXCEPT ![r] = Success(@, @.vc, <<>>, 0)]
       ELSE /\ hfs' = hfs
            /\ req' = [req EXCEPT ![r].pc = "f_catch"]
    /\ UNCHANGED <<now, status, cfs, hist, edits>>

\* An inner catch that throws the error on without `rm -rf tempDir`.
FileCatchNoCleanup(r, ok) ==
    /\ ~ok => faults < MaxFaults
    /\ faults' = IF ok THEN faults ELSE faults + 1
    /\ req[r].op = "file" /\ req[r].pc = "f_catch"
    /\ hfs' = hfs
    /\ req' = [req EXCEPT ![r] =
                 Failure(@, 500, "Failed to get file from container", "error")]
    /\ UNCHANGED <<now, status, cfs, hist, edits>>

\* The inner catch: `await execAsync(rm -rf tempDir).catch(() => {})`, then
\* the error is thrown on to the outer catch, which answers 500.
FileCatch(r, ok) ==
    /\ ~ok => faults < MaxFaults
    /\ faults' = IF ok THEN faults ELSE faults + 1
    /\ req[r].op = "file" /\ req[r].pc = "f_catch"
    /\ hfs' = IF ok THEN RemoveTree(hfs, Resolve(req[r].tmp)) ELSE hfs
    /\ req' = [req EXCEPT ![r] =
                 Failure([@ EXCEPT !.leak = ~ok], 500,
                         "Failed to get file from container", "error")]
    /\ UNCHANGED <<now, status, cfs, hist, edits>>

\* ------------------------------------------------------------------------
\* GET /api/container/:containerId/load-project
\* ------------------------------------------------------------------------

\* const chunkSize = 10
chunkSize == 10

\* The directories that the find command leaves out.
Excluded == {<<"node_modules">>, <<".git">>, <<"dist">>, <<".cache">>}

\* file.includes("inspection-handler")
Marker == "inspection-handler"

Includes(file, m) == \E i \in 1..Len(file) : file[i] = m

\* The components of a path joined by "/".
RECURSIVE Join(_)
Join(comps) ==
    IF comps = <<>> THEN <<>>
    ELSE IF Len(comps) = 1 THEN comps[1]
    ELSE comps[1] \o <<SL>> \o Join(Tail(comps))

\* A find without the ! -path tests: every file below /app.
FoundEverywhere(fs) == {p \in DOMAIN fs : IsFile(fs, p) /\ IsPrefix(AppDir, p)}

\* `cd /app && find . -type f ! -path "*/node_modules/*" ...`: the files
\* below /app that have no excluded directory above them.
Found(fs) ==
    {p \in DOMAIN fs :
        /\ IsFile(fs, p)
        /\ IsPrefix(AppDir, p)
        /\ \A k \in (Len(AppDir) + 1)..(Len(p) - 1) : p[k] \notin Excluded}

\* The line that find prints for file p: "./" and the path from /app.
FindLine(p) == <<".", SL>> \o Join(SubSeq(p, Len(AppDir) + 1, Len(p)))

\* The elements of a set in some order.
RECURSIVE SeqOf(_)
SeqOf(S) ==
    IF S = {} THEN <<>>
    ELSE LET x == CHOOSE y \in S : TRUE IN <<x>> \o SeqOf(S \ {x})

\* file.replace("./", ""): the first "./" of the line is taken out.
RECURSIVE StripDotSlash(_)
StripDotSlash(line) ==
    IF Len(line) < 2 THEN line
    ELSE IF line[1] = "." /\ line[2] = SL THEN SubSeq(line, 3, Len(line))
    ELSE <<line[1]>> \o StripDotSlash(Tail(line))

\* The orders in which a command may print a set of lines: any of them
\* first (find follows the order of the directories, which is not fixed),
\* the others after it.
Orders(S) == IF S = {} THEN {<<>>} ELSE {<<x>> \o SeqOf(S \ {x}) : x \in S}

\* What find prints for file system fs.
FindOutput(fs) == Orders({FindLine(p) : p \in Found(fs)})

\* fileList.split("\n").filter(...).map(...): the lines printed, read from
\* the exec stream, each without its "./".
FileList(printed) ==
    LET lines == [i \in 1..Len(printed) |->
                    IF i = 1 THEN Collected(printed[i]) ELSE printed[i]]
    IN  [i \in 1..Len(lines) |-> StripDotSlash(lines[i])]

\* const tempDir = `/tmp/dev-container-${containerId}`
LoadTempDir(cid) == <<SL, "tmp", SL, "dev-container-">> \o cid

\* `${tempDir}/${path.basename(file)}`
LoadTempFile(cid, file) == LoadTempDir(cid) \o <<SL>> \o basename(file)

\* content.trim() is the empty string.
Whitespace == {NL, " "}

TrimIsEmpty(content) == \A i \in 1..Len(content) : content[i] \in Whitespace

\* A loop that starts the functions of all the files that are left at once:
\* the fan-out that C27 rules out.
StartChunkAll(q, i) ==
    IF i >= Len(q.files) THEN [q EXCEPT !.pc = "l_rm", !.idx = i, !.task = <<>>]
    ELSE LET n == Len(q.files) - i
         IN  [q EXCEPT !.pc = "l_chunk", !.idx = i,
                       !.task = [k \in 1..n |->
                                   [file |-> q.files[i + k],
                                    pc |-> IF Includes(q.files[i + k], Marker)
                                           THEN "done" ELSE "mkdir",
                                    content |-> <<>>]]]

\* The body of the for loop for the chunk that starts at index i (from 0):
\* every async function of chunk.map runs up to its first await, which is
\* the mkdir command, or returns at once for a file with the marker.  When
\* no file is left the loop is over and `rm -rf` of the directory is started.
StartChunk(q, i) ==
    IF i >= Len(q.files) THEN [q EXCEPT !.pc = "l_rm", !.idx = i, !.task = <<>>]
    ELSE LET n == IF Len(q.files) - i < chunkSize THEN Len(q.files) - i
                  ELSE chunkSize
         IN  [q EXCEPT !.pc = "l_chunk", !.idx = i,
                       !.task = [k \in 1..n |->
                                   [file |-> q.files[i + k],
                                    pc |-> IF Includes(q.files[i + k], Marker)
                                           THEN "done" ELSE "mkdir",
                                    content |-> <<>>]]]

\* The handler up to `await container.exec(...)` of the find command.
LoadRequest(r, cid) ==
    /\ Free(r)
    /\ req' = [req EXCEPT ![r] =
                 LET q == Accept("load", cid, Missing, Missing)
                 IN  IF ~CanExec(cid)
                     THEN Failure(q, 500, "Failed to load project from container",
                                  "exec")
                     ELSE [q EXCEPT !.pc = "l_find"]]
    /\ hfs' = Disown(hfs, r)
    /\ UNCHANGED <<now, status, cfs, hist, edits, faults>>

\* `await exec.start()` and the wait for the stream's end: find has run, the
\* list of files is built and the first chunk is started.
LoadListed(r) ==
    /\ req[r].op = "load" /\ req[r].pc = "l_find"
    /\ \E printed \in FindOutput(cfs) :
         req' = [req EXCEPT ![r] =
                   IF ~CanExec(@.cid)
                   THEN Failure(@, 500, "Failed to load project from container",
                                "exec")
                   ELSE StartChunk(Ran([@ EXCEPT !.files = FileList(printed)],
                                       "find", ListUser), 0)]
    /\ UNCHANGED <<now, status, cfs, hfs, hist, edits, faults>>

\* The stream of find emits "error" instead of "end": the promise has a
\* handler for "end" only and is never settled.
LoadListStreamError(r) ==
    /\ req[r].op = "load" /\ req[r].pc = "l_find"
    /\ req' = [req EXCEPT ![r].pc = "l_unsettled"]
    /\ UNCHANGED <<now, status, cfs, hfs, hist, edits, faults>>

\* The k-th file of the chunk is at step pc of its async function.  skip
\* keeps the files whose function ended in its catch block.
TaskAt(r, k, pc) ==
    /\ req[r].op = "load" /\ req[r].pc = "l_chunk"
    /\ k \in 1..Len(req[r].task)
    /\ req[r].task[k].pc = pc

\* `mkdir -p tempDir` of the k-th file ends (ok) or fails: docker cp is
\* started, or the error caught and logged.
LoadFileMkdir(r, k, ok) ==
    /\ TaskAt(r, k, "mkdir")
    /\ ~ok => faults < MaxFaults
    /\ faults' = IF ok THEN faults ELSE faults + 1
    /\ LET m == MkdirP(hfs, LoadTempDir(req[r].cid), "host", r)
       IN  IF ok /\ m.ok
           THEN /\ hfs' = m.fs
                /\ req' = [req EXCEPT ![r].task[k].pc = "cp"]
           ELSE /\ hfs' = hfs
                /\ req' = [req EXCEPT ![r].task[k].pc = "done",
                                      ![r].skip = @ \cup {req[r].task[k].file}]
    /\ UNCHANGED <<now, status, cfs, hist, edits>>

\* A per-file function whose failed docker cp ends the whole request with
\* 500: the abort that C28 rules out.
LoadFileCopiedAbort(r, k) ==
    /\ TaskAt(r, k, "cp")
    /\ LET file == req[r].task[k].file
           c == DockerCp(req[r].cid, AppPrefix \o file, hfs,
                         LoadTempFile(req[r].cid, file), r)
       IN  /\ hfs' = c.fs
           /\ req' = [req EXCEPT ![r] =
                        IF c.ok THEN [@ EXCEPT !.task[k].pc = "read"]
                        ELSE Failure(@, 500,
                                     "Failed to load project from container", "cp")]
    /\ UNCHANGED <<now, status, cfs, hist, edits, faults>>

\* docker cp of the k-th file ends: readFile is started, or the error caught.
LoadFileCopied(r, k) ==
    /\ TaskAt(r, k, "cp")
    /\ LET file == req[r].task[k].file
           c == DockerCp(req[r].cid, AppPrefix \o file, hfs,
                         LoadTempFile(req[r].cid, file), r)
       IN  /\ hfs' = c.fs
           /\ req' = [req EXCEPT ![r].task[k].pc = IF c.ok THEN "read" ELSE "done",
                                 ![r].skip = IF c.ok THEN @ ELSE @ \cup {file}]
    /\ UNCHANGED <<now, status, cfs, hist, edits, faults>>

\* readFile of the k-th file ends: `rm` of the temporary file is started, or
\* the error caught.
LoadFileRead(r, k) ==
    /\ TaskAt(r, k, "read")
    /\ LET f == Resolve(LoadTempFile(req[r].cid, req[r].task[k].file))
       IN  req' = [req EXCEPT ![r].task[k] =
                     IF IsFile(hfs, f) THEN [@ EXCEPT !.content = hfs[f].c, !.pc = "rm"]
                     ELSE [@ EXCEPT !.pc = "done"],
                              ![r].skip = IF IsFile(hfs, f) THEN @
                                          ELSE @ \cup {req[r].task[k].file}]
    /\ UNCHANGED <<now, status, cfs, hfs, hist, edits, faults>>

\* `rm` of the temporary file of the k-th file ends (ok): the content is
\* recorded in projectFiles unless it trims to nothing.  When rm fails the
\* error is caught and nothing is recorded.
LoadFileRemoved(r, k, ok) ==
    /\ TaskAt(r, k, "rm")
    /\ ~ok => faults < MaxFaults
    /\ faults' = IF ok THEN faults ELSE faults + 1
    /\ LET t == req[r].task[k]
           f == Resolve(LoadTempFile(req[r].cid, t.file))
       IN  IF ok /\ IsFile(hfs, f)
           THEN /\ hfs' = RemoveTree(hfs, f)
                /\ req' = [req EXCEPT ![r].task[k].pc = "done",
                                      ![r].out = IF TrimIsEmpty(t.content) THEN @
                                                 ELSE (t.file :> t.content) @@ @]
           ELSE /\ hfs' = hfs
                /\ req' = [req EXCEPT ![r].task[k].pc = "done",
                                      ![r].skip = @ \cup {t.file}]
    /\ UNCHANGED <<now, status, cfs, hist, edits>>

\* A loop without the pause between chunks: what C26 rules out.
LoadChunkNoPause(r) ==
    /\ req[r].op = "load"
    /\ req[r].pc \in {"l_chunk", "l_pause"}
    /\ \A k \in 1..Len(req[r].task) : req[r].task[k].pc = "done"
    /\ req' = [req EXCEPT ![r] = StartChunk(@, @.idx + chunkSize)]
    /\ UNCHANGED <<now, status, cfs, hfs, hist, edits, faults>>

\* Promise.all of the chunk is settled: the pause of 100 ms when files are
\* left, and after it the next chunk; else `rm -rf` of the directory is
\* started.
LoadChunkSettled(r) ==
    /\ req[r].op = "load"
    /\ req[r].pc \in {"l_chunk", "l_pause"}
    /\ \A k \in 1..Len(req[r].task) : req[r].task[k].pc = "done"
    /\ req' = [req EXCEPT ![r] =
                 IF @.pc = "l_pause" THEN StartChunk(@, @.idx + chunkSize)
                 ELSE IF @.idx + chunkSize < Len(@.files)
                 THEN [@ EXCEPT !.pc = "l_pause"]
                 ELSE [@ EXCEPT !.pc = "l_rm"]]
    /\ UNCHANGED <<now, status, cfs, hfs, hist, edits, faults>>

\* `rm -rf /tmp/dev-container-${containerId}` ends (ok): the response with
\* the files and their number.  When it fails the outer catch answers 500.
LoadCleaned(r, ok) ==
    /\ req[r].op = "load" /\ req[r].pc = "l_rm"
    /\ ~ok => faults < MaxFaults
    /\ faults' = IF ok THEN faults ELSE faults + 1
    /\ IF ok
       THEN /\ hfs' = RemoveTree(hfs, Resolve(LoadTempDir(req[r].cid)))
            /\ req' = [req EXCEPT ![r] =
                         Success(@, <<>>, <<>>, Cardinality(DOMAIN @.out))]
       ELSE /\ hfs' = hfs
            /\ req' = [req EXCEPT ![r] =
                         Failure([@ EXCEPT !.leak = TRUE], 500,
                                 "Failed to load project from container", "rm")]
    /\ UNCHANGED <<now, status, cfs, hist, edits>>

\* ------------------------------------------------------------------------
\* GET /api/container/:containerId/load-paths
\* ------------------------------------------------------------------------

\* The endings of the names that the find command of load-paths leaves out
\* (! -name "*.png" ...).
BinaryExt ==
    {".png", ".jpg", ".jpeg", ".gif", ".ico", ".woff", ".woff2", ".ttf",
     ".eot", ".mp4", ".webm", ".mp3", ".wav", ".pdf"}

\* A byte that no text holds.
CtrlByte == "^A"

\* find ... ! -name "*.png" ...: the files that find of load-paths hands to
\* `file`.
Candidates(fs) ==
    {p \in Found(fs) : p[Len(p)][Len(p[Len(p)])] \notin BinaryExt}

\* What `file` says of a file with these bytes.
Probe(bytes) ==
    IF bytes = <<>> THEN <<"empty">>
    ELSE IF Includes(bytes, CtrlByte) THEN <<"data">>
    ELSE <<"ASCII", " ", "text">>

\* `-exec file {} \;`: the line that `file` prints for file p.
ProbeLine(fs, p) == FindLine(p) \o <<":", " ">> \o Probe(fs[p].c)

\* `| grep text`: the lines in which "text" occurs, wherever.
GrepText(lines) == {l \in lines : Includes(l, "text")}

\* line.match(/^\.\/(.+):/): the line starts with "./" and match[1] runs up
\* to the last ":" that leaves it at least one character; null (here the
\* empty string) when there is no match.
MatchPath(line) ==
    LET ends == {k \in 4..Len(line) : line[k] = ":"}
    IN  IF Len(line) >= 4 /\ line[1] = "." /\ line[2] = SL /\ ends # {}
        THEN SubSeq(line, 3, (CHOOSE k \in ends : \A j \in ends : j <= k) - 1)
        ELSE <<>>

\* The elements of a sequence that are not the empty string, in order.
RECURSIVE NonNull(_)
NonNull(seq) ==
    IF seq = <<>> THEN <<>>
    ELSE (IF seq[1] = <<>> THEN <<>> ELSE <<seq[1]>>) \o NonNull(Tail(seq))

\* fileList.split("\n").filter(...).map(...).filter(...): the lines that
\* grep let through, read from the exec stream, each cut down to its path.
\* What the pipeline prints for file system fs: the lines of file that grep
\* lets through, in find's order.
PipeOutput(fs) == Orders(GrepText({ProbeLine(fs, p) : p \in Candidates(fs)}))

PathList(printed) ==
    LET lines == [i \in 1..Len(printed) |->
                    IF i = 1 THEN Collected(printed[i]) ELSE printed[i]]
    IN  NonNull([i \in 1..Len(lines) |-> MatchPath(lines[i])])

\* A handler that stops the container it lists: the lifecycle call that
\* C20 rules out.
PathsRequestStopping(r, cid) ==
    /\ Free(r)
    /\ req' = [req EXCEPT ![r] =
                 LET q == Accept("paths", cid, Missing, Missing)
                 IN  IF ~CanExec(cid)
                     THEN Failure(q, 500, "Failed to load paths from container",
                                  "exec")
                     ELSE [q EXCEPT !.pc = "p_find"]]
    /\ hfs' = Disown(hfs, r)
    /\ status' = [c \in Cids |-> IF c = cid /\ status[c] = "running"
                                 THEN "stopped" ELSE status[c]]
    /\ UNCHANGED <<now, cfs, hist, edits, faults>>

\* The handler up to `await container.exec(...)` of the find command.
PathsRequest(r, cid) ==
    /\ Free(r)
    /\ req' = [req EXCEPT ![r] =
                 LET q == Accept("paths", cid, Missing, Missing)
                 IN  IF ~CanExec(cid)
                     THEN Failure(q, 500, "Failed to load paths from container",
                                  "exec")
                     ELSE [q EXCEPT !.pc = "p_find"]]
    /\ hfs' = Disown(hfs, r)
    /\ UNCHANGED <<now, status, cfs, hist, edits, faults>>

\* `await exec.start()` and the wait for the stream's end: the pipeline has
\* run, the list is built and sent.
PathsListed(r) ==
    /\ req[r].op = "paths" /\ req[r].pc = "p_find"
    /\ \E printed \in PipeOutput(cfs) :
         req' = [req EXCEPT ![r] =
                   IF ~CanExec(@.cid)
                   THEN Failure(@, 500, "Failed to load paths from container",
                                "exec")
                   ELSE LET files == PathList(printed)
                        IN  Success(Ran([@ EXCEPT !.files = files], "paths",
                                        PathsUser), <<>>, <<>>, Len(files))]
    /\ UNCHANGED <<now, status, cfs, hfs, hist, edits, faults>>

\* The stream of the pipeline emits "error" instead of "end": the promise
\* has a handler for "end" only and is never settled.
PathsStreamError(r) ==
    /\ req[r].op = "paths" /\ req[r].pc = "p_find"
    /\ req' = [req EXCEPT ![r].pc = "p_unsettled"]
    /\ UNCHANGED <<now, status, cfs, hfs, hist, edits, faults>>

\* ------------------------------------------------------------------------
\* GET /api/container/:containerId/logs
\* ------------------------------------------------------------------------

\* What the dev server of a running container has printed, as container.logs
\* returns it: each line behind the 8 bytes of its frame header.  A container
\* that was never started has printed nothing.
FrameHeader == [i \in 1..8 |-> StreamHeader]

DevLog == <<FrameHeader \o <<"ready">>, FrameHeader \o <<"vite">>>>

LogOf(c) == IF status[c] = "running" THEN DevLog ELSE <<>>

\* const { tail = 100 } = req.query
DefaultTail == 100

\* The last n lines (tail: n).
LastLines(lines, n) ==
    IF Len(lines) <= n THEN lines
    ELSE SubSeq(lines, Len(lines) - n + 1, Len(lines))

\* .map((line) => line.length > 8 ? line.slice(8) : line)
StripPrefix(line) == IF Len(line) > 8 THEN SubSeq(line, 9, Len(line)) ELSE line

\* The whole handler: container.logs, the lines, the response.
LogsRequest(r, cid, tail) ==
    /\ Free(r)
    /\ req' = [req EXCEPT ![r] =
                 LET q == Accept("logs", cid, Missing, Missing)
                     lines == LastLines(LogOf(cid), tail)
                     logLines == [i \in 1..Len(lines) |-> StripPrefix(lines[i])]
                 IN  IF ~HasFs(cid)
                     THEN Failure(q, 500, "Failed to get container logs", "logs")
                     ELSE Success([q EXCEPT !.files = logLines], <<>>, <<>>,
                                  Len(logLines))]
    /\ hfs' = Disown(hfs, r)
    /\ UNCHANGED <<now, status, cfs, hist, edits, faults>>

\* ------------------------------------------------------------------------
\* Requests and specifications
\* ------------------------------------------------------------------------

\* The filePath values of the requests: x, /x, /app/x, app/x, /app/app/x,
\* ../x, /app and src (a directory of the image).
Paths ==
    {<<"x">>, <<SL, "x">>, <<SL, "app", SL, "x">>, <<"app", SL, "x">>,
     <<SL, "app", SL, "app", SL, "x">>, <<"..", SL, "x">>, <<SL, "app">>,
     <<"src">>}

\* The content values of the requests: a, a' and -n.
Contents == {<<"a">>, <<"a", QT>>, <<"-", "n">>}

\* Requests one after the other (everything happens in slot 1), with
\* filePath drawn from P, content from C and at most max edits.  The host's
\* commands fail only for what the program did.
SeqNext(P, C, max) ==
    \/ Tick
    \/ \E r \in {1} :
         \/ StartRequest(r)
         \/ \E ok \in BOOLEAN : StartBuilt(r, ok)
         \/ StartCreated(r)
         \/ StartStarted(r)
         \/ \E cid \in Cids \cup {Missing} : Finish(r, cid)
         \/ \E cid \in Cids, fp \in P \cup {Missing}, c \in C \cup {Missing} :
              EditRequest(r, cid, fp, c, max)
         \/ EditMkdirStarted(r)
         \/ MkdirRun(r)
         \/ EditWritten(r)
         \/ EditVerified(r)
         \/ \E cid \in Cids, fp \in P \cup {Missing} : FileRequest(r, cid, fp)
         \/ FileMkdir(r, TRUE)
         \/ FileCopied(r)
         \/ FileRead(r)
         \/ FileRemoved(r, TRUE)
         \/ FileCatch(r, TRUE)

\* Every content, written to and read from x.
Spec == Init /\ [][SeqNext({<<"x">>}, Contents, MaxEdits) /\ UNCHANGED uivars]_vars

\* Every path, with one content.
SpecPath == Init /\ [][SeqNext(Paths, {<<"a">>}, MaxPathEdits) /\ UNCHANGED uivars]_vars

\* The filePath values of the requests whose temporary files are followed:
\* src/main (a file of the image) and x (no such file).
TempPaths == {<<"src", SL, "main">>, <<"x">>}

\* The container that these requests name: dev-0, which is running once the
\* start request that came at time 0 has started it and does not exist
\* before.
TempCid == CidOf(0)

\* getFile and load-project requests in two slots, at the same time or one
\* after the other, all within one tick of the clock (the temporary
\* directories of two getFile requests have the same name), in which the
\* host's mkdir, rm and rm -rf may fail (MaxFaults times); the container is
\* started in slot 1.
TempNext ==
    \/ \E r \in {1} :
         \/ StartRequest(r)
         \/ \E ok \in BOOLEAN : StartBuilt(r, ok)
         \/ StartCreated(r)
         \/ StartStarted(r)
    \/ \E r \in Slots :
         \/ \E fp \in TempPaths : FileRequest(r, TempCid, fp)
         \/ \E ok \in BOOLEAN : FileMkdir(r, ok)
         \/ FileCopied(r)
         \/ FileRead(r)
         \/ \E ok \in BOOLEAN : FileRemoved(r, ok)
         \/ \E ok \in BOOLEAN : FileCatch(r, ok)
         \/ LoadRequest(r, TempCid)
         \/ LoadListed(r)
         \/ \E k \in 1..chunkSize, ok \in BOOLEAN : LoadFileMkdir(r, k, ok)
         \/ \E k \in 1..chunkSize : LoadFileCopied(r, k)
         \/ \E k \in 1..chunkSize : LoadFileRead(r, k)
         \/ \E k \in 1..chunkSize, ok \in BOOLEAN : LoadFileRemoved(r, k, ok)
         \/ LoadChunkSettled(r)
         \/ \E ok \in BOOLEAN : LoadCleaned(r, ok)

\* getFile and load-project with failing host commands.
SpecTemp == Init /\ [][TempNext /\ UNCHANGED uivars]_vars

\* The edits of the requests that are followed by an enumeration: a text
\* file main (the image has a file of that name in src, as it has an
\* index.tsx in several directories), a text file below a dist directory, a
\* text file named logo.png and a file named texture that holds a control
\* byte.
ListEdits ==
    {[fp |-> <<"main">>, c |-> <<"a">>],
     [fp |-> <<"src", SL, "dist", SL, "x">>, c |-> <<"a">>],
     [fp |-> <<"logo", ".png">>, c |-> <<"a">>],
     [fp |-> <<"text", "ure">>, c |-> <<CtrlByte>>]}

\* The values of the query parameter tail.
Tails == {1, DefaultTail}

\* Requests of every endpoint one after the other (everything happens in
\* slot 1): at most MaxListEdits edits, drawn from ListEdits or with a
\* missing field, and no failing host command.
OpsNext ==
    \E r \in {1} :
         \/ StartRequest(r)
         \/ \E ok \in BOOLEAN : StartBuilt(r, ok)
         \/ StartCreated(r)
         \/ StartStarted(r)
         \/ \E cid \in {TempCid, Missing} : Finish(r, cid)
         \/ \E e \in ListEdits : EditRequest(r, TempCid, e.fp, e.c, MaxListEdits)
         \/ \E fp \in {<<"x">>, Missing}, c \in {<<"a">>, Missing} :
              (fp = Missing \/ c = Missing)
              /\ EditRequest(r, TempCid, fp, c, MaxListEdits)
         \/ EditMkdirStarted(r)
         \/ MkdirRun(r)
         \/ EditWritten(r)
         \/ EditVerified(r)
         \/ \E fp \in {<<"main">>, Missing} : FileRequest(r, TempCid, fp)
         \/ FileMkdir(r, TRUE)
         \/ FileCopied(r)
         \/ FileRead(r)
         \/ FileRemoved(r, TRUE)
         \/ FileCatch(r, TRUE)
         \/ LoadRequest(r, TempCid)
         \/ LoadListed(r)
         \/ \E k \in 1..chunkSize : LoadFileMkdir(r, k, TRUE)
         \/ \E k \in 1..chunkSize : LoadFileCopied(r, k)
         \/ \E k \in 1..chunkSize : LoadFileRead(r, k)
         \/ \E k \in 1..chunkSize : LoadFileRemoved(r, k, TRUE)
         \/ LoadChunkSettled(r)
         \/ LoadCleaned(r, TRUE)
         \/ PathsRequest(r, TempCid)
         \/ PathsListed(r)
         \/ \E tail \in Tails : LogsRequest(r, TempCid, tail)

\* Every endpoint, with the files that the enumerations tell apart.
SpecOps == Init /\ [][OpsNext /\ UNCHANGED uivars]_vars

\* The content values of the edits that run side by side: a and bb.
WriteContents == {<<"a">>, <<"b", "b">>}

\* Edits of x in two slots, at the same time or one after the other, their
\* write commands step by step, while time passes; the container is started
\* in slot 1.
WriteNext ==
    \/ Tick
    \/ \E r \in {1} :
         \/ StartRequest(r)
         \/ \E ok \in BOOLEAN : StartBuilt(r, ok)
         \/ StartCreated(r)
         \/ StartStarted(r)
    \/ \E r \in Slots :
         \/ \E c \in WriteContents : EditRequest(r, TempCid, <<"x">>, c, MaxEdits)
         \/ EditMkdirStarted(r)
         \/ MkdirRun(r)
         \/ EditWriteOpened(r)
         \/ EditWriteEchoed(r)
         \/ EditWriteMoved(r)
         \/ EditVerified(r)

\* Concurrent edits.
SpecWrite == Init /\ [][WriteNext /\ UNCHANGED uivars]_vars

\* The files of inspection-handler in a project with more files than one
\* chunk holds.
HandlerFiles == {"index", "types", "hook1", "hook2", "hook3", "hook4", "hook5"}

\* The file system of a container made from an image of such a project
\* (Dockerfile: COPY . .): package.json, src/main, an index in
\* src/app-layout and in src/public-layout, and the files of
\* src/inspection-handler.
ProjectFS ==
    LET src == Append(AppDir, <<"src">>)
        ih == Append(src, <<Marker>>)
    IN  (<<>> :> DirNode("root", 0))
        @@ (AppDir :> DirNode("node", 0))
        @@ (Append(AppDir, <<"package.json">>) :> FileNode("node", <<"p">>, 0))
        @@ (src :> DirNode("node", 0))
        @@ (Append(src, <<"main">>) :> FileNode("node", <<"m">>, 0))
        @@ (Append(src, <<"app-layout">>) :> DirNode("node", 0))
        @@ (src \o <<<<"app-layout">>, <<"index">>>> :> FileNode("node", <<"l">>, 0))
        @@ (Append(src, <<"public-layout">>) :> DirNode("node", 0))
        @@ (src \o <<<<"public-layout">>, <<"index">>>> :> FileNode("node", <<"u">>, 0))
        @@ (ih :> DirNode("node", 0))
        @@ [p \in {Append(ih, <<f>>) : f \in HandlerFiles} |->
              FileNode("node", <<"i">>, 0)]
        @@ (TmpDir :> DirNode("root", 0))

\* The session dev-0 of such a project is running.
InitBatch ==
    /\ now = 0
    /\ status = [c \in Cids |-> IF c = TempCid THEN "running" ELSE "absent"]
    /\ cfs = ProjectFS
    /\ hfs = HostFS
    /\ req = [r \in Slots |-> IdleReq]
    /\ hist = <<>>
    /\ edits = 0
    /\ faults = 0
    /\ InitUi

\* load-project requests for that session one after the other, in which no
\* host command is made to fail.
BatchNext ==
    \E r \in {1} :
         \/ LoadRequest(r, TempCid)
         \/ LoadListed(r)
         \/ \E k \in 1..chunkSize : LoadFileMkdir(r, k, TRUE)
         \/ \E k \in 1..chunkSize : LoadFileCopied(r, k)
         \/ \E k \in 1..chunkSize : LoadFileRead(r, k)
         \/ \E k \in 1..chunkSize : LoadFileRemoved(r, k, TRUE)
         \/ LoadChunkSettled(r)
         \/ LoadCleaned(r, TRUE)

\* The chunks of load-project.
SpecBatch == InitBatch /\ [][BatchNext /\ UNCHANGED uivars]_vars

\* Edits of x, load-project and load-paths requests for the running session
\* one after the other (everything happens in slot 1), in which the stream
\* of an exec may emit "error".
StreamNext ==
    \E r \in {1} :
         \/ EditWriteStreamError(r)
         \/ EditVerifyStreamError(r)
         \/ LoadListStreamError(r)
         \/ PathsStreamError(r)
         \/ EditRequest(r, TempCid, <<"x">>, <<"a">>, MaxEdits)
         \/ EditMkdirStarted(r)
         \/ MkdirRun(r)
         \/ EditWritten(r)
         \/ EditVerified(r)
         \/ LoadRequest(r, TempCid)
         \/ LoadListed(r)
         \/ \E k \in 1..chunkSize : LoadFileMkdir(r, k, TRUE)
         \/ \E k \in 1..chunkSize : LoadFileCopied(r, k)
         \/ \E k \in 1..chunkSize : LoadFileRead(r, k)
         \/ \E k \in 1..chunkSize : LoadFileRemoved(r, k, TRUE)
         \/ LoadChunkSettled(r)
         \/ LoadCleaned(r, TRUE)
         \/ PathsRequest(r, TempCid)
         \/ PathsListed(r)

\* Streams that fail; every handler goes on whenever it can (the event loop
\* runs every callback that is due, and every exec, host command and stream
\* ends or fails).
SpecStream ==
    /\ InitBatch /\ [][StreamNext /\ UNCHANGED uivars]_vars
    /\ WF_vars(StreamNext /\ UNCHANGED uivars)

\* start and finish requests in two slots, at the same time or one after
\* the other, while time passes.
LifeNext ==
    \/ Tick
    \/ \E r \in Slots :
         \/ StartRequest(r)
         \/ \E ok \in BOOLEAN : StartBuilt(r, ok)
         \/ StartCreated(r)
         \/ StartStarted(r)
         \/ \E cid \in Cids \cup {Missing} : Finish(r, cid)

\* The life of the sessions.
SpecLife == Init /\ [][LifeNext /\ UNCHANGED uivars]_vars

\* ------------------------------------------------------------------------
\* Claims
\* ------------------------------------------------------------------------

\* The last edit of hist is an edit of the path and container of request q.
LastEditOf(q) ==
    /\ hist # <<>>
    /\ hist[Len(hist)].cid = q.cid
    /\ hist[Len(hist)].fp = q.fp

\* C1 (as claimed): a getFile of path P that follows a successful edit of
\* (P, C), with no edit in between, returns success with content exactly C.
C1_RoundTrip ==
    \A r \in Slots :
        (req[r].op = "file" /\ req[r].pc = "done" /\ LastEditOf(req[r]))
        => (req[r].resp.code = 200 /\ req[r].resp.content = hist[Len(hist)].c)

\* C10 (as claimed): after two successful edits of the same path in a row,
\* with contents C1 then C2, a getFile of the path returns success with
\* content exactly C2.
C10_Overwrite ==
    \A r \in Slots :
        (req[r].op = "file" /\ req[r].pc = "done" /\ LastEditOf(req[r])
         /\ Len(hist) = 2 /\ hist[1].c # hist[2].c)
        => (req[r].resp.code = 200 /\ req[r].resp.content = hist[2].c)

\* C5: an edit whose read-back (cat) yielded zero bytes is answered with the
\* 500 failure "File appears to be empty after writing", never with success.
C5_EmptyWriteDetected ==
    \A r \in Slots :
        (req[r].op = "edit" /\ req[r].pc = "done" /\ req[r].at = "verify"
         /\ req[r].vc = <<>>)
        => /\ req[r].resp.code = 500
           /\ req[r].resp.error = "Failed to modify file in container"
           /\ req[r].resp.details = "File appears to be empty after writing"

\* C5's case: the read-back was empty although the write command printed no
\* error, and the edit was answered 500.
C5_Witness ==
    \E r \in Slots :
        /\ req[r].op = "edit" /\ req[r].pc = "done" /\ req[r].at = "verify"
        /\ req[r].vc = <<>> /\ req[r].err = <<>> /\ req[r].mk = "done"
        /\ req[r].resp.code = 500

\* C6 (as claimed): an edit is answered with success only if its write
\* command printed no error and the normalized path is afterwards a file
\* that holds the submitted content (compared up to the newline that echo
\* appends, which is C1's subject).
C6_SuccessMeansWritten ==
    \A r \in Slots :
        (req[r].op = "edit" /\ req[r].pc = "done" /\ req[r].resp.code = 200)
        => /\ req[r].err = <<>>
           /\ IsFile(cfs, Resolve(req[r].norm))
           /\ StartsWith(cfs[Resolve(req[r].norm)].c, req[r].content)

\* The relative paths among the paths of the requests, and the three ways
\* to name the file R of the workspace.
RelPaths == {p \in Paths : p[1] # SL}

Rooted(R) == <<SL>> \o R

Prefixed(R) == AppPrefix \o R

\* C7 (as claimed): for every relative path R, an edit of R, of "/" + R or
\* of "/app/" + R targets /app/R: that is its normalized path, whose
\* directory is created, which is written, verified and reported.
C7_ThreeForms ==
    \A r \in Slots : \A R \in RelPaths :
        (req[r].op = "edit" /\ req[r].norm # <<>>
         /\ req[r].fp \in {R, Rooted(R), Prefixed(R)})
        => req[r].norm = Prefixed(R)

\* C7 (amended): an edit of R or of "/app/" + R targets /app/R; an edit of
\* "/" + R targets /app/R unless R begins with "app/", when "/" + R is
\* already prefixed and is itself the target.  The path reported on success
\* is the target.
C7_Normalization ==
    \A r \in Slots : \A R \in RelPaths :
        (req[r].op = "edit" /\ req[r].norm # <<>>)
        => /\ req[r].fp \in {R, Prefixed(R)} => req[r].norm = Prefixed(R)
           /\ req[r].fp = Rooted(R) =>
                req[r].norm = IF StartsWith(R, <<"app", SL>>) THEN Rooted(R)
                              ELSE Prefixed(R)
           /\ req[r].resp.code = 200 => req[r].resp.path = req[r].norm

\* C7's case: the edits of /x and of /app/x answered with success and
\* reported /app/x, which is a file of the container.
C7_Witness ==
    \E r \in Slots :
        /\ req[r].op = "edit" /\ req[r].pc = "done" /\ req[r].resp.code = 200
        /\ req[r].fp = Rooted(<<"x">>)
        /\ req[r].resp.path = Prefixed(<<"x">>)
        /\ IsFile(cfs, Resolve(Prefixed(<<"x">>)))

\* Below /tmp.
UnderTmp(p) == IsPrefix(TmpDir, p)

\* C8 (as claimed): whatever the filePath, an edit creates, chowns and
\* writes only below /app (its temporary file below /tmp aside), so that
\* everything else in the container stays as in the image; and a getFile
\* copies from below /app.
C8_Confinement ==
    /\ \A p \in DOMAIN cfs :
          (~UnderApp(p) /\ ~UnderTmp(p)) => (p \in DOMAIN ImageFS /\ cfs[p] = ImageFS[p])
    /\ \A r \in Slots :
          (req[r].op = "file" /\ req[r].pc \in {"f_read", "f_rm"})
          => UnderApp(Resolve(CopySource(req[r].fp)))

\* C9 (as claimed): a getFile of F that follows an edit of F which wrote
\* the file at its normalized path reads that file: it succeeds, with the
\* bytes of the file.
C9_SameFile ==
    \A r \in Slots :
        (req[r].op = "file" /\ req[r].pc = "done" /\ LastEditOf(req[r])
         /\ IsFile(cfs, Resolve(normalizedPath(req[r].fp))))
        => /\ req[r].resp.code = 200
           /\ req[r].resp.content = cfs[Resolve(normalizedPath(req[r].fp))].c

\* Request q is a finish request for a container that has been started.
FinishOfSession(q) ==
    /\ q.op = "finish"
    /\ q.cid \in Cids
    /\ status[q.cid] \in {"running", "stopped", "removed"}

\* C2: a finish request issues container.remove only after container.stop
\* ended without error, and issues neither when the archive reported an
\* error or its output could not be opened: the container is left running.
C2_FinalizeOrdering ==
    \A r \in Slots :
        req[r].op = "finish"
        => /\ \A i \in DOMAIN req[r].td :
                req[r].td[i] = "remove"
                => \E j \in 1..(i - 1) : req[r].td[j] = "stopOk"
           /\ req[r].arch \in {"nostream", "error"} => req[r].td = <<>>
           /\ (req[r].arch \in {"nostream", "error"} /\ req[r].cid \in Cids)
              => status[req[r].cid] \notin {"stopped", "removed"}

\* C2's case: a finish request for a running container whose output could
\* not be opened was answered 500, and no stop or remove was issued.
C2_Witness ==
    \E r \in Slots :
        /\ FinishOfSession(req[r]) /\ req[r].pc = "done"
        /\ req[r].arch = "nostream" /\ req[r].resp.code = 500
        /\ req[r].td = <<>> /\ status[req[r].cid] = "running"

\* C3 (as claimed): a finish request for a running session, in which neither
\* the archive nor stop or remove reported an error, is answered with success
\* and backupPath, the container stopped and removed.
C3_FinishSucceeds ==
    \A r \in Slots :
        (FinishOfSession(req[r]) /\ req[r].pc = "done"
         /\ req[r].arch # "error"
         /\ \A i \in DOMAIN req[r].td : req[r].td[i] \notin {"stopErr", "removeErr"})
        => /\ req[r].resp.code = 200
           /\ req[r].resp.content = <<"./backup.zip">>
           /\ status[req[r].cid] = "removed"

\* What request r created on the host and is still there.
TempsOf(r) == {p \in DOMAIN hfs : hfs[p].by = r}

\* Request q is a getFile, writeFile or load-project call that has sent its
\* response.
Answered(q) == q.op \in {"file", "edit", "load"} /\ q.pc = "done"

\* C4 (as claimed): once a getFile, writeFile or load-project call has sent
\* its response, success or failure at any step, nothing that the call
\* created below the host's /tmp still exists.
C4_NoTempLeft ==
    \A r \in Slots : Answered(req[r]) => TempsOf(r) = {}

\* C4 (amended): once such a call has sent its response, nothing that it
\* created below the host's /tmp still exists, unless the last rm -rf of its
\* temporary directory itself failed.
C4_TempCleanup ==
    \A r \in Slots :
        (Answered(req[r]) /\ ~req[r].leak) => TempsOf(r) = {}

\* C4's case: a getFile whose docker cp failed after its directory was made
\* (no host command was made to fail) answered 500 from its catch block, and
\* the directory is gone.
C4_Witness ==
    \E r \in Slots :
        /\ req[r].op = "file" /\ req[r].pc = "done" /\ req[r].at = "f_catch"
        /\ req[r].resp.code = 500 /\ faults = 0
        /\ ~Exists(hfs, Resolve(req[r].tmp))
        /\ TempsOf(r) = {}

\* The relative path key has a directory of one of these names above its
\* last component, at the top or deeper.
UnderNamed(key, names) ==
    \E i \in 1..(Len(key) - 1) :
        /\ <<key[i]>> \in names
        /\ key[i + 1] = SL
        /\ (i = 1 \/ key[i - 1] = SL)

\* C11: the mapping that load-project returns has no key below a
\* node_modules, .git, dist or .cache directory, at any depth, and no key
\* that contains the marker inspection-handler.
C11_EnumerationExclusion ==
    \A r \in Slots :
        (req[r].op = "load" /\ req[r].pc = "done" /\ req[r].resp.code = 200)
        => \A key \in DOMAIN req[r].out :
              ~UnderNamed(key, Excluded) /\ ~Includes(key, Marker)

\* C11's case: load-project answered with files of a container that holds
\* node_modules/vite, src/dist/x and src/inspection-handler.
C11_Witness ==
    \E r \in Slots :
        /\ req[r].op = "load" /\ req[r].pc = "done" /\ req[r].resp.code = 200
        /\ DOMAIN req[r].out # {}
        /\ IsFile(cfs, AppDir \o <<<<"node_modules">>, <<"vite">>>>)
        /\ IsFile(cfs, AppDir \o <<<<"src">>, <<"dist">>, <<"x">>>>)
        /\ IsFile(cfs, AppDir \o <<<<"src">>, <<"inspection-handler">>>>)

\* The strings of a sequence.
Range(seq) == {seq[i] : i \in 1..Len(seq)}

\* Request q is a load-paths request answered with its list.
PathsAnswered(q) == q.op = "paths" /\ q.pc = "done" /\ q.resp.code = 200

\* C12 (as claimed): no path that load-paths returns contains the marker
\* inspection-handler.
C12_PathsSkipMarker ==
    \A r \in Slots :
        PathsAnswered(req[r]) => \A file \in Range(req[r].files) : ~Includes(file, Marker)

\* The path of file p from /app.
RelPath(p) == Join(SubSeq(p, Len(AppDir) + 1, Len(p)))

\* The probe classifies these bytes as text.
IsText(bytes) == Includes(Probe(bytes), "text")

\* C13 (as claimed): the list that load-paths returns is exactly the relative
\* paths of the candidate files that the probe classifies as text.
C13_ExactlyTextFiles ==
    \A r \in Slots :
        PathsAnswered(req[r])
        => Range(req[r].files) =
              {RelPath(p) : p \in {c \in Candidates(cfs) : IsText(cfs[c].c)}}

\* Request q is a start request whose handler has computed its session id
\* and has not answered yet.
Starting(q) == q.op = "start" /\ q.pc \in {"build", "create", "run"}

\* C14 (as claimed): two start calls that are being handled at the same time
\* have different session ids.
C14_UniqueIds ==
    \A r1, r2 \in Slots :
        (r1 # r2 /\ Starting(req[r1]) /\ Starting(req[r2]))
        => req[r1].cid # req[r2].cid

\* The calls of a start handler in their order, and how a call ends.
StartCalls == <<"build", "create", "start">>

EndedOk(call) == call \o "Ok"

EndedErr(call) == call \o "Err"

StartErrs == {EndedErr(StartCalls[k]) : k \in 1..3}

\* C15: a start request calls build, create and start in that order, each
\* only right after the one before it ended without error; a call that
\* fails is the last one and the request is answered 500; the response with
\* status running comes only after container.start ended without error.
C15_StartSequencing ==
    \A r \in Slots :
        req[r].op = "start"
        => LET td == req[r].td
           IN  /\ \A i \in DOMAIN td : \A k \in 1..3 :
                     td[i] = StartCalls[k]
                     => IF k = 1 THEN i = 1
                        ELSE i > 1 /\ td[i - 1] = EndedOk(StartCalls[k - 1])
               /\ \A i \in DOMAIN td :
                     td[i] \in StartErrs
                     => /\ i = Len(td)
                        /\ req[r].pc = "done" /\ req[r].resp.code = 500
               /\ req[r].resp.code = 200
                  => /\ td[Len(td)] = EndedOk("start")
                     /\ status[req[r].cid] # "absent"
               /\ (req[r].pc = "done" /\ req[r].resp.code # 200)
                  => req[r].resp.code = 500 /\ td[Len(td)] \in StartErrs

\* C15's case: a start request whose createContainer failed was answered
\* 500 and never called container.start.
C15_Witness ==
    \E r \in Slots :
        /\ req[r].op = "start" /\ req[r].pc = "done"
        /\ req[r].resp.code = 500
        /\ req[r].td = <<"build", "buildOk", "create", "createErr">>

\* How far a status is along the life of a session.
Rank(st) ==
    CASE st = "absent" -> 0
      [] st = "created" -> 1
      [] st = "running" -> 2
      [] st = "stopped" -> 3
      [] st = "removed" -> 4

\* C16: no step of any request moves the status of a session backwards along
\* created, running, stopped, removed.
C16_StatusForward ==
    [][\A c \in Cids : Rank(status'[c]) >= Rank(status[c])]_vars

\* C16's case: a second start request that computed the id of a running
\* session was refused by createContainer, and the session is still running.
C16_Witness ==
    \E r \in Slots :
        /\ req[r].op = "start" /\ req[r].pc = "done"
        /\ req[r].td[Len(req[r].td)] = "createErr"
        /\ status[req[r].cid] = "running"

\* Request q lacks a required field: a finish without containerId, an
\* edit without filePath or content, a getFile without filePath.
Invalid(q) ==
    \/ q.op = "finish" /\ q.cid = Missing
    \/ q.op = "edit" /\ (q.fp = Missing \/ q.content = Missing)
    \/ q.op = "file" /\ q.fp = Missing

\* Request q was answered by its first step and its handler made no exec
\* session, Docker call, host command, archive or temporary file.
Untouched(q) ==
    /\ q.pc = "done" /\ q.at = "start"
    /\ q.norm = <<>> /\ q.tmp = <<>> /\ q.mk = "none"
    /\ q.arch = "none" /\ q.td = <<>> /\ q.vc = <<>>

\* C17: a finish, edit or getFile request that lacks a required field is
\* answered 400 by its first step; that step changes no container, no file
\* of the container and no file of the host, and the handler does nothing
\* after it.
C17_FastFail ==
    /\ [](\A r \in Slots :
            Invalid(req[r])
            => req[r].resp.code = 400 /\ Untouched(req[r]) /\ TempsOf(r) = {})
    /\ [][\A r \in Slots :
            (req'[r] # req[r] /\ Invalid(req'[r]))
            => /\ status' = status /\ cfs' = cfs /\ edits' = edits
               /\ DOMAIN hfs' = DOMAIN hfs]_vars

\* C17's case: an edit request that names a running container and has a
\* filePath but no content was answered 400.
C17_Witness ==
    \E r \in Slots :
        /\ req[r].op = "edit" /\ req[r].fp # Missing /\ req[r].content = Missing
        /\ req[r].resp.code = 400
        /\ CanExec(req[r].cid)

\* Request q was answered with a failure.
Failed(q) == q.resp.sent > 0 /\ q.resp.code # 200

\* C18 (as claimed): every failure response has an error string and a
\* details field; its status is 400 when the request lacks a required field
\* and 500 otherwise.
C18_FailureShape ==
    \A r \in Slots :
        Failed(req[r])
        => /\ req[r].resp.error \notin {"", Undefined}
           /\ req[r].resp.details # Undefined
           /\ req[r].resp.code = IF Invalid(req[r]) THEN 400 ELSE 500

\* The output of request q has reported its close: the close handler has
\* begun, which starts with container.stop.
OutputClosed(q) == q.arch = "open" /\ \E i \in DOMAIN q.td : q.td[i] = "stop"

\* C19: a finish request is answered with success only by the last step of
\* the close handler of its output, hence after the output has closed.
C19_SuccessAfterClose ==
    \A r \in Slots :
        (req[r].op = "finish" /\ req[r].resp.sent > 0 /\ req[r].resp.code = 200)
        => OutputClosed(req[r]) /\ req[r].at = "removing"

\* C19's case: a finish request for a running session whose output never
\* closed has been answered, with "Operation failed" and not with success.
C19_Witness ==
    \E r \in Slots :
        /\ FinishOfSession(req[r]) /\ req[r].resp.sent > 0
        /\ ~OutputClosed(req[r])
        /\ req[r].resp.code # 200 /\ req[r].resp.error = "Operation failed"

\* The requests that work on the files of a session or read its log.
FileOps == {"edit", "file", "load", "paths", "logs"}

\* C20: no step of an edit, getFile, load-project, load-paths or logs
\* request, whether it succeeds or fails, changes the status of a session,
\* and none of them calls create, start, stop or remove.
C20_OwnershipFrame ==
    /\ [](\A r \in Slots : req[r].op \in FileOps => req[r].td = <<>>)
    /\ [][\A r \in Slots :
            (req'[r] # req[r] /\ req'[r].op \in FileOps) => status' = status]_vars

\* C20's case: after an edit reached the running container, a load-paths
\* request was answered with its list and the container is still running.
C20_Witness ==
    \E r \in Slots :
        /\ PathsAnswered(req[r]) /\ req[r].files # <<>>
        /\ edits > 0
        /\ status[req[r].cid] = "running"

\* The write command of edit request q has run in the container.
WriteRan(q) == q.op = "edit" /\ (q.pc = "verify" \/ q.at = "verify")

\* C21 (as claimed): the write command of an edit request runs only after
\* its mkdir command has finished, and its cat only after the write command
\* has ended.
C21_StepsOrdered ==
    \A r \in Slots :
        /\ WriteRan(req[r]) => req[r].mk = "done"
        /\ (req[r].op = "edit" /\ req[r].vc # <<>>) => WriteRan(req[r])

\* The transfers in flight and the temporary path of each: the getFile
\* requests between their mkdir and their rm -rf, the per-file functions of
\* the load-project requests between their mkdir and their rm (both on the
\* host), and the edit requests whose write command is to run (in the
\* container).
Transfers ==
    {[r |-> r, k |-> 0, ns |-> "host",
      path |-> FileTempFile(req[r].tmp, req[r].fp)] :
        r \in {s \in Slots : req[s].op = "file"
                             /\ req[s].pc \in {"f_mkdir", "f_cp", "f_read", "f_rm"}}}
    \cup
    UNION {{[r |-> r, k |-> k, ns |-> "host",
             path |-> LoadTempFile(req[r].cid, req[r].task[k].file)] :
               k \in {j \in 1..Len(req[r].task) :
                        req[r].task[j].pc \in {"mkdir", "cp", "read", "rm"}}} :
           r \in {s \in Slots : req[s].op = "load" /\ req[s].pc = "l_chunk"}}
    \cup
    {[r |-> r, k |-> 0, ns |-> "container", path |-> req[r].tmp] :
        r \in {s \in Slots : req[s].op = "edit" /\ req[s].pc = "write"}}

\* C23 (as claimed): two transfers in flight at the same time never have
\* the same temporary path.
C23_TempPathsDistinct ==
    \A t1, t2 \in Transfers :
        (t1 # t2 /\ t1.ns = t2.ns) => t1.path # t2.path

\* The complete contents that the file at path p of the container may show:
\* what the image holds there and what an edit writes.
CompleteAt(p) ==
    (IF p \in DOMAIN ImageFS THEN {ImageFS[p].c} ELSE {})
    \cup {EchoBytes(c) : c \in WriteContents \cup Contents \cup {e.c : e \in ListEdits}}

\* C22 (as claimed): whatever edits run at the same time, a file below /app
\* holds at every moment its former content or the whole content of one of
\* the writes, never a part or a mix of them.
C22_NoPartialFile ==
    \A p \in DOMAIN cfs :
        (IsFile(cfs, p) /\ UnderApp(p)) => cfs[p].c \in CompleteAt(p)

\* Request q is a load-project request answered with its mapping.
LoadAnswered(q) == q.op = "load" /\ q.pc = "done" /\ q.resp.code = 200

\* C24 (as claimed): every entry of the mapping that load-project returns
\* has the content of the container's file /app/<key>, also when files of
\* one batch have the same base name.
C24_EntryOfItsFile ==
    \A r \in Slots :
        LoadAnswered(req[r])
        => \A key \in DOMAIN req[r].out :
              LET p == Resolve(AppPrefix \o key)
              IN  IsFile(cfs, p) /\ req[r].out[key] = cfs[p].c

\* What a load-project request that enumerated files returns when nothing
\* else runs and no host command fails: the content of every enumerated
\* file of the container that has no marker and does not trim to nothing.
AloneResult(files) ==
    LET keys == {f \in Range(files) :
                    /\ ~Includes(f, Marker)
                    /\ IsFile(cfs, Resolve(AppPrefix \o f))
                    /\ ~TrimIsEmpty(cfs[Resolve(AppPrefix \o f)].c)}
    IN  [f \in keys |-> cfs[Resolve(AppPrefix \o f)].c]

\* C25 (as claimed): when no host command is made to fail, a load-project
\* request returns the mapping it returns when it runs alone, whether or
\* not another load-project request for the session runs at the same time.
C25_LoadAloneOrNot ==
    \A r \in Slots :
        (LoadAnswered(req[r]) /\ faults = 0)
        => req[r].out = AloneResult(req[r].files)

\* Every per-file function of the chunk of request q has settled.
AllSettled(q) == \A k \in 1..Len(q.task) : q.task[k].pc = "done"

\* The per-file functions of request q that are in flight.
InFlight(q) == {k \in 1..Len(q.task) : q.task[k].pc # "done"}

\* C26: within a load-project request a chunk is started only when the
\* pause is over, the pause begins only when every function of the chunk
\* before has settled and files are left, and after the last chunk the
\* final rm -rf follows without a pause.
C26_ChunksInSequence ==
    [][\A r \in Slots :
          (req[r].op = "load" /\ req'[r].op = "load" /\ req[r].pc # "done")
          => /\ req'[r].idx # req[r].idx
                => req[r].pc = "l_pause" /\ req'[r].idx = req[r].idx + chunkSize
             /\ (req'[r].pc = "l_pause" /\ req[r].pc # "l_pause")
                => /\ req[r].pc = "l_chunk" /\ AllSettled(req[r])
                   /\ req[r].idx + chunkSize < Len(req[r].files)
             /\ (req'[r].pc = "l_rm" /\ req[r].pc = "l_chunk")
                => /\ AllSettled(req[r])
                   /\ req[r].idx + chunkSize >= Len(req[r].files)]_vars

\* C26's case: the second chunk of a request has a function in flight.
C26_Witness ==
    \E r \in Slots :
        /\ req[r].op = "load" /\ req[r].pc = "l_chunk"
        /\ req[r].idx = chunkSize
        /\ InFlight(req[r]) # {}

\* C27: a load-project request never has more than chunkSize per-file
\* functions started and not settled, however many files it enumerated.
C27_BoundedFanOut ==
    \A r \in Slots :
        req[r].op = "load"
        => /\ Len(req[r].task) <= chunkSize
           /\ Cardinality(InFlight(req[r])) <= chunkSize

\* C27's case: a request that enumerated more than chunkSize files runs a
\* chunk of chunkSize functions, some of them in flight.
C27_Witness ==
    \E r \in Slots :
        /\ req[r].op = "load" /\ req[r].pc = "l_chunk"
        /\ Len(req[r].files) > chunkSize
        /\ Len(req[r].task) = chunkSize
        /\ InFlight(req[r]) # {}

\* The enumerated files of request q that have no marker and do not trim to
\* nothing.
Wanted(q) ==
    {f \in Range(q.files) :
        /\ ~Includes(f, Marker)
        /\ LET p == Resolve(AppPrefix \o f)
           IN  IsFile(cfs, p) => ~TrimIsEmpty(cfs[p].c)}

C29_CleanupDoesNotMask ==
    \A r \in Slots :
        /\ (req[r].op = "file" /\ req[r].pc = "done" /\ req[r].vc # <<>>)
           => req[r].resp.code = 200 /\ req[r].resp.content = req[r].vc
        /\ (req[r].op = "load" /\ req[r].pc = "l_chunk")
           => \A k \in 1..Len(req[r].task) :
                 (req[r].task[k].pc = "done"
                  /\ ~TrimIsEmpty(req[r].task[k].content))
                 => req[r].task[k].file \in DOMAIN req[r].out
        /\ (req[r].op = "load" /\ req[r].pc = "done" /\ req[r].at = "l_rm")
           => req[r].resp.code = 200

\* The steps at which a handler waits for the stream of an exec, and the
\* waits that an "error" of the stream has left unsettled.
ExecWaits == {"write", "verify", "l_find", "p_find",
              "v_unsettled", "l_unsettled", "p_unsettled"}

\* C30 (as claimed): every edit, load-project and load-paths request that
\* waits for the stream of an exec is answered in the end, whether the
\* stream ends or emits an error.
C30_ExecCompletion ==
    \A r \in Slots : (req[r].pc \in ExecWaits) ~> (req[r].pc = "done")


\* C31: the only exec that runs in the container as root is the directory
\* creation and ownership fix-up of an edit; the write command, the verify
\* command and the two listings run as node.
C31_ExecIdentities ==
    \A r \in Slots : \A e \in req[r].ex :
        /\ e[1] = "mkdir" => e[2] = "root"
        /\ e[1] # "mkdir" => e[2] = "node"

\* An edit has been answered after its three execs have run, and root has
\* made a directory below /app for it that node owns now.
C31_Witness ==
    \E r \in Slots :
        /\ {e[1] : e \in req[r].ex} = {"mkdir", "write", "verify"}
        /\ req[r].pc = "done"
        /\ \E p \in DOMAIN cfs : cfs[p].o = "node" /\ cfs[p].t = "dir"
                                 /\ Len(p) > Len(AppDir) + 1


\* The edits that make the files which C32 tells apart: a file of blanks
\* (content " ", to which echo adds a line feed) and a file with text.
RecordEdits ==
    {[fp |-> <<"blank">>, c |-> <<" ">>], [fp |-> <<"note">>, c |-> <<"a">>]}

RecordNext ==
    \E r \in {1} :
         \/ StartRequest(r)
         \/ \E ok \in BOOLEAN : StartBuilt(r, ok)
         \/ StartCreated(r)
         \/ StartStarted(r)
         \/ \E e \in RecordEdits : EditRequest(r, TempCid, e.fp, e.c, MaxListEdits)
         \/ EditMkdirStarted(r)
         \/ MkdirRun(r)
         \/ EditWritten(r)
         \/ EditVerified(r)
         \/ LoadRequest(r, TempCid)
         \/ LoadListed(r)
         \/ \E k \in 1..chunkSize : LoadFileMkdir(r, k, TRUE)
         \/ \E k \in 1..chunkSize : LoadFileCopied(r, k)
         \/ \E k \in 1..chunkSize : LoadFileRead(r, k)
         \/ \E k \in 1..chunkSize : LoadFileRemoved(r, k, TRUE)
         \/ LoadChunkSettled(r)
         \/ LoadCleaned(r, TRUE)

\* load-project after edits that write blanks and text.
SpecRecord == Init /\ [][RecordNext /\ UNCHANGED uivars]_vars

\* The enumerated files of request q without marker that were fetched and
\* whose content has a length greater than zero.
Fetched(q) ==
    {f \in Range(q.files) :
        /\ ~Includes(f, Marker)
        /\ f \notin q.skip
        /\ LET p == Resolve(AppPrefix \o f)
           IN  IsFile(cfs, p) /\ Len(cfs[p].c) > 0}

\* C32 (as claimed): the mapping that load-project returns has exactly the
\* enumerated files without marker that were fetched and whose content is
\* longer than zero, under their relative paths without "./", and
\* fileCount is the number of its entries.
C32_RecordsNonEmpty ==
    \A r \in Slots :
        LoadAnswered(req[r])
        => /\ DOMAIN req[r].out = Fetched(req[r])
           /\ \A key \in DOMAIN req[r].out : ~StartsWith(key, <<".", SL>>)
           /\ req[r].resp.n = Cardinality(DOMAIN req[r].out)


\* C33: no request is answered twice: neither a finish request (whose
\* handler answers in its catch block, in the archive's error handler and in
\* the output's close handler) nor a request of another endpoint.
C33_AtMostOneResponse ==
    \A r \in Slots : req[r].resp.sent <= 1

\* A finish request for a session has been answered by the catch block of
\* its handler, once.
C33_Witness ==
    \E r \in Slots :
        /\ req[r].op = "finish" /\ req[r].pc = "done"
        /\ req[r].cid # Missing
        /\ req[r].resp.code = 500 /\ req[r].resp.error = "Operation failed"
        /\ req[r].resp.sent = 1


\* The characters of the contents that the quoting is tried on: the single
\* quote, the backslash that the replacement puts before it, and a letter.
QuoteAlphabet == {QT, BS, "x"}

\* Every content of 1..MaxQuoteLen characters of the alphabet.
QuoteContents ==
    UNION {[1..n -> QuoteAlphabet] : n \in 1..MaxQuoteLen}

QuoteNext ==
    \E r \in {1} :
         \/ StartRequest(r)
         \/ \E ok \in BOOLEAN : StartBuilt(r, ok)
         \/ StartCreated(r)
         \/ StartStarted(r)
         \/ \E c \in QuoteContents :
              EditRequest(r, TempCid, <<"x">>, c, MaxQuoteEdits)
         \/ EditMkdirStarted(r)
         \/ MkdirRun(r)
         \/ EditWritten(r)
         \/ EditVerified(r)

\* Edits of x with contents that hold quotes and backslashes.
SpecQuote == Init /\ [][QuoteNext /\ UNCHANGED uivars]_vars

\* C34: the word '<content with every ' replaced by '\''>' of the write
\* command is one word for /bin/sh, and its value is the content, character
\* by character, for every content with single quotes and backslashes.
C34_QuoteEscaping ==
    \A r \in Slots :
        (req[r].op = "edit" /\ req[r].content # Missing)
        => EchoArg(req[r].content) = req[r].content

\* The write command of an edit whose content holds a single quote has run
\* and /app/x holds the content.
C34_Witness ==
    \E r \in Slots :
        /\ req[r].op = "edit" /\ req[r].content = <<"x", QT, "x">>
        /\ <<"write", WriteUser>> \in req[r].ex
        /\ IsFile(cfs, Resolve(req[r].norm))
        /\ cfs[Resolve(req[r].norm)].c = <<"x", QT, "x", NL>>


\* ------------------------------------------------------------------------
\* The inspector of the page (src/app/src/ui/components/inspection-handler)
\* ------------------------------------------------------------------------

\* The orchestrator's variables, which the inspector leaves alone.
server == <<now, status, cfs, hfs, req, hist, edits, faults>>

\* The values of data-archie-id of the elements of the page.
Elements == {"a", "b", "c", "d"}

\* `prev.length >= 3`: the most elements that are selected at a time.
MaxSelected == 3

\* The messages posted to the parent frame, with the id they carry.
Cleared == <<"SELECTIONS_CLEARED">>

Removed(id) == <<"ELEMENT_REMOVED", id>>

Selected(id) == <<"ELEMENT_SELECTED", id>>

Deselected(id) == <<"ELEMENT_DESELECTED", id>>

Active == <<"INSPECTION_ACTIVE">>

NavigationState == <<"NAVIGATION_STATE">>

\* { element, id } of the hooks and { element, guide, color, id } of the
\* component (guide 0: none).
Entry(id, guide) == [id |-> id, guide |-> guide]

Ids(items) == {items[i].id : i \in 1..Len(items)}

\* prev.some((info) => info.id === elementId)
Has(items, id) == id \in Ids(items)

\* prev.filter((info) => info.id !== elementId)
Without(items, id) == SelectSeq(items, LAMBDA info : info.id # id)

\* The array that is in neither the state nor the last render: a new array.
FreshRef ==
    CHOOSE n \in 0..2 : n \notin {selectedElements.ref,
                                  rendered.selectedElements.ref}

\* setSelectedElements with the outcome u of an updater: the state is the
\* array that the updater returned (prev itself when u.same).
SetSelected(u) ==
    IF u.same THEN selectedElements ELSE [ref |-> FreshRef, items |-> u.items]

\* A state that the component has not rendered yet.
Pending ==
    /\ mounted = "yes"
    /\ \/ isInspecting # rendered.isInspecting
       \/ selectedElements.ref # rendered.selectedElements.ref

\* A state set by the handler of a click or a double click: React renders
\* it, and runs the effects, before the next event or message is handled.
Discrete ==
    /\ Pending
    /\ posted.by[1] \in {"click", "dblclick"}

\* A selection that takes a fourth element without giving one up.
addSelectionNoLimit(prev, elementId) ==
    IF Has(prev, elementId) THEN [items |-> prev, same |-> TRUE, msgs |-> <<>>]
    ELSE [items |-> Append(prev, Entry(elementId, 0)), same |-> FALSE,
          msgs |-> <<>>]

\* The updater of addSelection (useElementSelection): the array it returns
\* and the messages it posts.
addSelection(prev, elementId) ==
    IF Has(prev, elementId) THEN [items |-> prev, same |-> TRUE, msgs |-> <<>>]
    ELSE IF Len(prev) >= MaxSelected
    THEN [items |-> Append(Tail(prev), Entry(elementId, 0)), same |-> FALSE,
          msgs |-> <<Removed(prev[1].id)>>]
    ELSE [items |-> Append(prev, Entry(elementId, 0)), same |-> FALSE,
          msgs |-> <<>>]

\* The updater of removeSelection.
removeSelection(prev, elementId) ==
    [items |-> Without(prev, elementId), same |-> FALSE,
     msgs |-> IF Has(prev, elementId) THEN <<Removed(elementId)>> ELSE <<>>]

\* The updater of toggleSelection.
toggleSelection(prev, elementId) ==
    IF Has(prev, elementId)
    THEN [items |-> Without(prev, elementId), same |-> FALSE,
          msgs |-> <<Removed(elementId)>>]
    ELSE IF Len(prev) >= MaxSelected
    THEN [items |-> Append(Tail(prev), Entry(elementId, 0)), same |-> FALSE,
          msgs |-> <<Removed(prev[1].id)>>]
    ELSE [items |-> Append(prev, Entry(elementId, 0)), same |-> FALSE,
          msgs |-> <<>>]

\* clearSelection of useElementSelection: setSelectedElements([]) and the
\* message.
clearSelection == [items |-> <<>>, same |-> FALSE, msgs |-> <<Cleared>>]

\* The first render of the hooks and their effects: the event effect finds
\* inspection off and clears the selection.
HooksMount ==
    /\ mounted = "no"
    /\ mounted' = "yes"
    /\ rendered' = [isInspecting |-> isInspecting,
                    selectedElements |-> selectedElements]
    /\ selectedElements' = SetSelected(clearSelection)
    /\ listener' = [on |-> FALSE, size |-> 0, items |-> <<>>]
    /\ posted' = [by |-> <<"mount">>, msgs |-> clearSelection.msgs]
    /\ UNCHANGED <<isInspecting, body, guides>>
    /\ UNCHANGED server

\* A render after a change of state, and the effects whose dependencies
\* changed.  The event effect depends on isInspecting and on
\* selectedElementIds.size (the callbacks never change): with inspection off
\* it clears the selection, with inspection on it registers handlers that
\* see the selection of this render.  The second effect posts
\* INSPECTION_ACTIVE when isInspecting became true.
HooksRender ==
    /\ Pending
    /\ rendered' = [isInspecting |-> isInspecting,
                    selectedElements |-> selectedElements]
    /\ IF isInspecting = listener.on
          /\ Len(selectedElements.items) = listener.size
       THEN /\ posted' = [by |-> <<"render">>, msgs |-> <<>>]
            /\ UNCHANGED <<selectedElements, listener>>
       ELSE IF ~isInspecting
       THEN /\ selectedElements' = SetSelected(clearSelection)
            /\ listener' = [on |-> FALSE, size |-> Len(selectedElements.items),
                            items |-> <<>>]
            /\ posted' = [by |-> <<"render">>, msgs |-> clearSelection.msgs]
       ELSE /\ listener' = [on |-> TRUE, size |-> Len(selectedElements.items),
                            items |-> selectedElements.items]
            /\ posted' = [by |-> <<"render">>,
                          msgs |-> IF rendered.isInspecting THEN <<>>
                                   ELSE <<Active>>]
            /\ UNCHANGED selectedElements
    /\ UNCHANGED <<mounted, isInspecting, body, guides>>
    /\ UNCHANGED server

\* handleClick of the event effect for a pointerdown on the element with id
\* elementId: toggleSelection, then ELEMENT_SELECTED or ELEMENT_DESELECTED by
\* the selectedElementIds that the handler saw when it was registered.  (A
\* pointerdown is handled after the render and the effects of the one
\* before.)
HooksClick(elementId) ==
    /\ mounted = "yes" /\ ~Pending /\ listener.on
    /\ LET u == toggleSelection(selectedElements.items, elementId)
       IN  /\ selectedElements' = SetSelected(u)
           /\ posted' = [by |-> <<"click", elementId>>,
                         msgs |-> Append(u.msgs,
                                         IF ~Has(listener.items, elementId)
                                         THEN Selected(elementId)
                                         ELSE Deselected(elementId))]
    /\ UNCHANGED <<mounted, isInspecting, rendered, listener, body, guides>>
    /\ UNCHANGED server

\* handleDoubleClick on an element whose first child with an id is
\* elementId: addSelection and ELEMENT_SELECTED.
HooksDoubleClick(elementId) ==
    /\ mounted = "yes" /\ ~Pending /\ listener.on
    /\ LET u == addSelection(selectedElements.items, elementId)
       IN  /\ selectedElements' = SetSelected(u)
           /\ posted' = [by |-> <<"dblclick", elementId>>,
                         msgs |-> Append(u.msgs, Selected(elementId))]
    /\ UNCHANGED <<mounted, isInspecting, rendered, listener, body, guides>>
    /\ UNCHANGED server

\* handleMessage of useParentCommunication for TOGGLE_INSPECTION.  (A message
\* is handled at any time but between a click and its render.)
HooksToggle(enabled) ==
    /\ mounted = "yes" /\ ~Discrete
    /\ isInspecting' = enabled
    /\ IF ~enabled
       THEN /\ selectedElements' = SetSelected(clearSelection)
            /\ posted' = [by |-> <<"TOGGLE_INSPECTION", enabled>>,
                          msgs |-> clearSelection.msgs]
       ELSE /\ posted' = [by |-> <<"TOGGLE_INSPECTION", enabled>>, msgs |-> <<>>]
            /\ UNCHANGED selectedElements
    /\ UNCHANGED <<mounted, rendered, listener, body, guides>>
    /\ UNCHANGED server

\* handleMessage for CLEAR_SELECTION.
HooksClear ==
    /\ mounted = "yes" /\ ~Discrete
    /\ selectedElements' = SetSelected(clearSelection)
    /\ posted' = [by |-> <<"CLEAR_SELECTION">>, msgs |-> clearSelection.msgs]
    /\ UNCHANGED <<mounted, isInspecting, rendered, listener, body, guides>>
    /\ UNCHANGED server

\* handleMessage for REMOVE_ELEMENT with an id.
HooksRemove(id) ==
    /\ mounted = "yes" /\ ~Discrete
    /\ LET u == removeSelection(selectedElements.items, id)
       IN  /\ selectedElements' = SetSelected(u)
           /\ posted' = [by |-> <<"REMOVE_ELEMENT", id>>, msgs |-> u.msgs]
    /\ UNCHANGED <<mounted, isInspecting, rendered, listener, body, guides>>
    /\ UNCHANGED server

HooksNext ==
    \/ HooksMount
    \/ HooksRender
    \/ \E elementId \in Elements : HooksClick(elementId)
    \/ \E elementId \in Elements : HooksDoubleClick(elementId)
    \/ \E enabled \in BOOLEAN : HooksToggle(enabled)
    \/ HooksClear
    \/ \E id \in Elements : HooksRemove(id)

\* The hooks useElementSelection, useInspectionEventHandlers and
\* useParentCommunication in one component.
SpecHooks == Init /\ [][HooksNext]_vars


\* C35: whatever addSelection, toggleSelection, removeSelection and
\* clearSelection are called with, the selection holds at most 3 entries
\* with different ids; and a step that adds a new id to a selection of 3
\* drops exactly the oldest entry, keeps the order of the others, puts the
\* new entry last and posts ELEMENT_REMOVED for the oldest id and no other.
C35_SelectionBound ==
    /\ [](/\ Len(selectedElements.items) <= 3
          /\ Cardinality(Ids(selectedElements.items))
               = Len(selectedElements.items))
    /\ [][(/\ Len(selectedElements.items) = 3
           /\ Ids(selectedElements'.items) \ Ids(selectedElements.items) # {})
          => /\ \E id \in Elements \ Ids(selectedElements.items) :
                  selectedElements'.items
                    = Append(Tail(selectedElements.items), Entry(id, 0))
             /\ {m \in Range(posted'.msgs) : m[1] = "ELEMENT_REMOVED"}
                  = {Removed(selectedElements.items[1].id)}]_vars

\* A click has added d to the selection a, b, c: a was evicted.
C35_Witness ==
    /\ posted.by = <<"click", "d">>
    /\ Removed("a") \in Range(posted.msgs)
    /\ selectedElements.items = <<Entry("b", 0), Entry("c", 0), Entry("d", 0)>>


\* C36: while inspecting, a click on an inspectable element that adds it to
\* the selection posts ELEMENT_SELECTED for its id and not
\* ELEMENT_DESELECTED, and a click that removes it from the selection posts
\* ELEMENT_DESELECTED for its id and not ELEMENT_SELECTED; also when the
\* click before evicted the oldest of 3 selections.
C36_ClickNotifications ==
    [][\A e \in Elements :
         posted'.by = <<"click", e>>
         => /\ (e \in Ids(selectedElements'.items) \ Ids(selectedElements.items))
                 => /\ Selected(e) \in Range(posted'.msgs)
                    /\ Deselected(e) \notin Range(posted'.msgs)
            /\ (e \in Ids(selectedElements.items) \ Ids(selectedElements'.items))
                 => /\ Deselected(e) \in Range(posted'.msgs)
                    /\ Selected(e) \notin Range(posted'.msgs)]_vars


\* ------------------------------------------------------------------------
\* The component InspectionHandler (index.tsx), which main.tsx renders: the
\* same state, with a guide element in document.body for every selection.

\* The guide elements that createSelectionGuide makes in one session.
MaxGuides == 4

\* selectedElements.forEach(info => document.body.removeChild(info.guide)):
\* removeChild throws NotFoundError for a guide that is not a child of the
\* body, after the guides before it have been removed.
RECURSIVE RemoveChildren(_, _)
RemoveChildren(items, b) ==
    IF items = <<>> THEN [ok |-> TRUE, body |-> b]
    ELSE IF Head(items).guide \notin b THEN [ok |-> FALSE, body |-> b]
    ELSE RemoveChildren(Tail(items), b \ {Head(items).guide})

\* clearSelection of the component, with the selection of the render that
\* made it: once the guides are removed it sets [] and posts
\* SELECTIONS_CLEARED; when removeChild throws it does neither.
HandlerClearSelection(closure, b) ==
    LET r == RemoveChildren(closure, b)
    IN  [ok |-> r.ok, body |-> r.body,
         msgs |-> IF r.ok THEN <<Cleared>> ELSE <<>>]

\* The updater of removeSelection of the component: it removes the guide of
\* the entry from the body (and throws when it is not there) and posts
\* ELEMENT_REMOVED.
HandlerRemoveSelection(prev, elementId, b) ==
    IF ~Has(prev, elementId)
    THEN [ok |-> TRUE, body |-> b, items |-> prev, msgs |-> <<>>]
    ELSE LET removed == CHOOSE info \in Range(prev) : info.id = elementId
         IN  [ok |-> removed.guide \in b, body |-> b \ {removed.guide},
              items |-> Without(prev, elementId),
              msgs |-> IF removed.guide \in b THEN <<Removed(elementId)>>
                       ELSE <<>>]

\* The first render of the component and its effects, inspection being off:
\* the inspection effect clears the (empty) selection and the navigation
\* effect posts NAVIGATION_STATE.
HandlerMount ==
    /\ mounted = "no"
    /\ mounted' = "yes"
    /\ rendered' = [isInspecting |-> isInspecting,
                    selectedElements |-> selectedElements]
    /\ selectedElements' = [ref |-> FreshRef, items |-> <<>>]
    /\ listener' = [on |-> FALSE, size |-> 0, items |-> <<>>]
    /\ posted' = [by |-> <<"mount">>, msgs |-> <<Cleared, NavigationState>>]
    /\ UNCHANGED <<isInspecting, body, guides>>
    /\ UNCHANGED server

\* A render after a change of state.  The cleanup of the navigation effect
\* removes the guides of the selection of the render before when
\* selectedElements changed; the inspection effect depends on isInspecting,
\* selectedElements, handleElementClick and clearSelection, so it runs again
\* after every change: it calls clearSelection when inspection is off and
\* registers the handlers of this render when it is on; then
\* INSPECTION_ACTIVE and NAVIGATION_STATE.  An error thrown by a cleanup or
\* an effect unmounts the component (no error boundary), which runs the
\* cleanup of the navigation effect once more.
HandlerRender ==
    /\ Pending
    /\ LET selChanged == selectedElements.ref # rendered.selectedElements.ref
           inspChanged == isInspecting # rendered.isInspecting
           cleanup == IF selChanged
                      THEN RemoveChildren(rendered.selectedElements.items, body)
                      ELSE [ok |-> TRUE, body |-> body]
           effect == IF ~isInspecting
                     THEN HandlerClearSelection(selectedElements.items,
                                                cleanup.body)
                     ELSE [ok |-> TRUE, body |-> cleanup.body, msgs |-> <<>>]
           cleared == ~isInspecting /\ effect.ok
           ok == cleanup.ok /\ effect.ok
       IN  /\ mounted' = IF ok THEN "yes" ELSE "crashed"
           /\ rendered' = [isInspecting |-> isInspecting,
                           selectedElements |-> selectedElements]
           /\ selectedElements' =
                  IF cleared THEN [ref |-> FreshRef, items |-> <<>>]
                  ELSE selectedElements
           /\ listener' = [on |-> isInspecting /\ ok,
                           size |-> Len(selectedElements.items),
                           items |-> selectedElements.items]
           /\ body' = IF ok THEN effect.body
                      ELSE RemoveChildren(selectedElements.items,
                                          effect.body).body
           /\ posted' = [by |-> <<"render">>,
                         msgs |-> effect.msgs
                                  \o (IF inspChanged /\ isInspecting
                                      THEN <<Active>> ELSE <<>>)
                                  \o (IF selChanged THEN <<NavigationState>>
                                      ELSE <<>>)]
    /\ UNCHANGED <<isInspecting, guides>>
    /\ UNCHANGED server

\* handleElementClick for the element with id elementId, with the selection
\* of the render that registered the handler: a selected element is removed;
\* otherwise the oldest of 3 is dropped with its guide, a guide is created
\* and appended to the body, the entry is appended and ELEMENT_SELECTED is
\* posted.  An error in the updater of removeSelection unmounts the
\* component at its render; an error in the handler itself leaves the state
\* as it is.
HandleElementClick(elementId, by) ==
    /\ IF Has(listener.items, elementId)
       THEN LET u == HandlerRemoveSelection(selectedElements.items, elementId,
                                            body)
            IN  /\ mounted' = IF u.ok THEN "yes" ELSE "crashed"
                /\ selectedElements' = [ref |-> FreshRef, items |-> u.items]
                /\ body' = u.body
                /\ posted' = [by |-> by, msgs |-> u.msgs]
                /\ UNCHANGED guides
       ELSE IF /\ Len(listener.items) >= MaxSelected
               /\ listener.items[1].guide \notin body
       THEN /\ posted' = [by |-> by, msgs |-> <<>>]
            /\ UNCHANGED <<mounted, selectedElements, body, guides>>
       ELSE LET full == Len(listener.items) >= MaxSelected
                rest == IF full THEN Tail(listener.items)
                        ELSE selectedElements.items
                guide == guides + 1
            IN  /\ guides < MaxGuides
                /\ guides' = guide
                /\ body' = (IF full THEN body \ {listener.items[1].guide}
                            ELSE body) \cup {guide}
                /\ selectedElements' =
                       [ref |-> FreshRef,
                        items |-> Append(rest, Entry(elementId, guide))]
                /\ posted' = [by |-> by, msgs |-> <<Selected(elementId)>>]
                /\ UNCHANGED mounted
    /\ UNCHANGED <<isInspecting, rendered, listener>>
    /\ UNCHANGED server

\* handleClick of the inspection effect: a pointerdown on an inspectable
\* element.
HandlerClick(elementId) ==
    /\ mounted = "yes" /\ ~Pending /\ listener.on
    /\ HandleElementClick(elementId, <<"click", elementId>>)

\* handleDoubleClick, while inspecting, on an element whose first child
\* with an id is elementId.
HandlerDoubleClick(elementId) ==
    /\ mounted = "yes" /\ ~Pending /\ listener.on
    /\ HandleElementClick(elementId, <<"dblclick", elementId>>)

\* handleMessage of the component for TOGGLE_INSPECTION: setIsInspecting,
\* then clearSelection of the last render when enabled is false.
HandlerToggle(enabled) ==
    /\ mounted = "yes" /\ ~Discrete
    /\ isInspecting' = enabled
    /\ IF ~enabled
       THEN LET u == HandlerClearSelection(rendered.selectedElements.items,
                                           body)
            IN  /\ selectedElements' =
                       IF u.ok THEN [ref |-> FreshRef, items |-> <<>>]
                       ELSE selectedElements
                /\ body' = u.body
                /\ posted' = [by |-> <<"TOGGLE_INSPECTION", enabled>>,
                              msgs |-> u.msgs]
       ELSE /\ posted' = [by |-> <<"TOGGLE_INSPECTION", enabled>>, msgs |-> <<>>]
            /\ UNCHANGED <<selectedElements, body>>
    /\ UNCHANGED <<mounted, rendered, listener, guides>>
    /\ UNCHANGED server

\* handleMessage for CLEAR_SELECTION.
HandlerClear ==
    /\ mounted = "yes" /\ ~Discrete
    /\ LET u == HandlerClearSelection(rendered.selectedElements.items, body)
       IN  /\ selectedElements' =
                  IF u.ok THEN [ref |-> FreshRef, items |-> <<>>]
                  ELSE selectedElements
           /\ body' = u.body
           /\ posted' = [by |-> <<"CLEAR_SELECTION">>, msgs |-> u.msgs]
    /\ UNCHANGED <<mounted, isInspecting, rendered, listener, guides>>
    /\ UNCHANGED server

\* handleMessage for REMOVE_ELEMENT with an id.
HandlerRemove(id) ==
    /\ mounted = "yes" /\ ~Discrete
    /\ LET u == HandlerRemoveSelection(selectedElements.items, id, body)
       IN  /\ mounted' = IF u.ok THEN "yes" ELSE "crashed"
           /\ selectedElements' = [ref |-> FreshRef, items |-> u.items]
           /\ body' = u.body
           /\ posted' = [by |-> <<"REMOVE_ELEMENT", id>>, msgs |-> u.msgs]
    /\ UNCHANGED <<isInspecting, rendered, listener, guides>>
    /\ UNCHANGED server

HandlerNext ==
    \/ HandlerMount
    \/ HandlerRender
    \/ \E elementId \in Elements : HandlerClick(elementId)
    \/ \E elementId \in Elements : HandlerDoubleClick(elementId)
    \/ \E enabled \in BOOLEAN : HandlerToggle(enabled)
    \/ HandlerClear
    \/ \E id \in Elements : HandlerRemove(id)

\* The component with its inputs at any time.
SpecHandler == Init /\ [][HandlerNext]_vars

\* The same, where React renders every state that was set.
SpecHandlerLive == Init /\ [][HandlerNext]_vars /\ WF_vars(HandlerRender)


\* C37: a TOGGLE_INSPECTION message with enabled = false turns inspection
\* off, leaves the selection empty and posts SELECTIONS_CLEARED; a
\* CLEAR_SELECTION message leaves the selection empty and posts
\* SELECTIONS_CLEARED, and leaves the inspection mode as it was.
C37_InboundCommands ==
    [][/\ posted'.by = <<"TOGGLE_INSPECTION", FALSE>>
          => /\ ~isInspecting'
             /\ selectedElements'.items = <<>>
             /\ Cleared \in Range(posted'.msgs)
       /\ posted'.by = <<"CLEAR_SELECTION">>
          => /\ selectedElements'.items = <<>>
             /\ Cleared \in Range(posted'.msgs)
             /\ isInspecting' = isInspecting]_vars


\* C38: when, from some moment on, inspection stays disabled and no message
\* and no click arrives (every step is a render of the mounted component),
\* the component becomes stable: from some moment on no state waits for a
\* render, so no effect runs again, and no further SELECTIONS_CLEARED is
\* posted.
C38_Quiescence ==
    (/\ <>[](~isInspecting)
     /\ <>[][posted'.by \in {<<"mount">>, <<"render">>}]_vars)
    => /\ <>[](~Pending)
       /\ <>[][Cleared \notin Range(posted'.msgs)]_vars

====
